---- MODULE Spec2Model ----
(***************************************************************************)
(* Model of the two engines of dito's server package:                      *)
(*   - GraphProcessor (relation overrides, relate conversion, restoring)   *)
(*   - QueryBuilder   (find / allow / getPropertyRefs and its handlers)    *)
(* Strings that the code builds by concatenation (relation paths joined by *)
(* ".", data paths joined by "/") are sequences of one-token strings that  *)
(* contain the separators, so that joining and splitting are real          *)
(* operations.                                                             *)
(***************************************************************************)
EXTENDS Integers, Sequences, FiniteSets, TLC

\* ------------------------------------------------------------------------
\* Bounds
\* ------------------------------------------------------------------------

\* Largest size of an input graph: its model instances, plus one when the
\* input is an array of root instances.
MaxNodes == 3

\* ------------------------------------------------------------------------
\* Values of a graph: model instances and arrays (tagged variants).
\* A relation field that is `undefined` is absent from `rels`.
\* ------------------------------------------------------------------------

Model(cls, id, rels) == [kind |-> "model", cls |-> cls, id |-> id, rels |-> rels]

Arr(items) == [kind |-> "array", items |-> items]

Undefined == [kind |-> "undefined"]

IndexStr(i) == <<"0", "1", "2", "3", "4", "5", "6", "7", "8", "9">>[i + 1]

IndexOf(s) == CHOOSE i \in 0..9 : IndexStr(i) = s

\* ------------------------------------------------------------------------
\* Relation metadata of the model classes.  The topology is fixed (and
\* cyclic: A -> B -> A); graphOptions and owner of every relation are inputs.
\* ------------------------------------------------------------------------

ModelClasses == {"A", "B"}

RelationArray == [A |-> <<"one", "many">>, B |-> <<"backs">>]

RelationInstances ==
  [one   |-> [relatedModelClass |-> "B", toMany |-> FALSE],
   many  |-> [relatedModelClass |-> "B", toMany |-> TRUE],
   backs |-> [relatedModelClass |-> "A", toMany |-> TRUE]]

RelationNames == DOMAIN RelationInstances

OptionKeys == {"relate", "unrelate", "insertMissing"}

\* relation.graphOptions is either undefined or an object with some keys
NoGraphOptions == [defined |-> FALSE, opts |-> <<>>]

GraphOptions(opts) == [defined |-> TRUE, opts |-> opts]

RelationDef(graphOptions, owner) == [graphOptions |-> graphOptions, owner |-> owner]

RelationDefs ==
  { RelationDef(NoGraphOptions, FALSE),
    RelationDef(NoGraphOptions, TRUE),
    RelationDef(GraphOptions([relate |-> FALSE]), FALSE),
    RelationDef(GraphOptions([relate |-> TRUE]), TRUE) }

BackRelationDefs ==
  { RelationDef(NoGraphOptions, FALSE),
    RelationDef(GraphOptions([unrelate |-> FALSE]), FALSE) }

Definitions ==
  { [one |-> o, many |-> m, backs |-> b] :
      o \in RelationDefs, m \in RelationDefs, b \in BackRelationDefs }

\* the global options of insertGraph / upsertGraph calls
GlobalOptions ==
  { [relate |-> TRUE],
    [relate |-> FALSE, unrelate |-> TRUE],
    [relate |-> TRUE, unrelate |-> TRUE, insertMissing |-> TRUE] }

Settings == [processOverrides : BOOLEAN, restoreRelations : BOOLEAN]

\* ------------------------------------------------------------------------
\* Input graphs: all graphs over the metadata with a given number of nodes.
\* ------------------------------------------------------------------------

RECURSIVE Trees(_, _), Fields(_, _, _), Lists(_, _)

\* model instances of class cls whose graph has exactly n instances
Trees(cls, n) ==
  IF n < 1 THEN {}
  ELSE { Model(cls, 0, f) : f \in Fields(cls, 1, n - 1) }

\* values of the relations i.. of cls that hold n instances in total
Fields(cls, i, n) ==
  IF i > Len(RelationArray[cls])
  THEN (IF n = 0 THEN {<<>>} ELSE {})
  ELSE LET name == RelationArray[cls][i]
           rel  == RelationInstances[name]
           Vals(k) == IF rel.toMany
                      THEN { Arr(l) : l \in Lists(rel.relatedModelClass, k) }
                      ELSE Trees(rel.relatedModelClass, k)
       IN Fields(cls, i + 1, n)
          \cup UNION { { (name :> v) @@ rest :
                           v \in Vals(k), rest \in Fields(cls, i + 1, n - k) } :
                       k \in 0..n }

\* arrays of instances of cls that hold n instances in total
Lists(cls, n) ==
  IF n = 0 THEN {<<>>}
  ELSE UNION { { <<t>> \o l : t \in Trees(cls, k), l \in Lists(cls, n - k) } :
               k \in 1..n }

Inputs ==
  UNION { Trees("A", n) : n \in 1..MaxNodes }
  \cup UNION { { Arr(l) : l \in Lists("A", n) } : n \in 0..(MaxNodes - 1) }

\* ------------------------------------------------------------------------
\* Helpers of @ditojs/utils and of the server's utils used by GraphProcessor
\* ------------------------------------------------------------------------

isArray(value) == value.kind = "array"

\* asArray(): an array is returned as it is, another value is wrapped
asArray(value) == IF isArray(value) THEN value ELSE Arr(<<value>>)

\* ensureModelArray(): the data as an array of model instances
ensureModelArray(data) == asArray(data)

\* String.prototype.split() on a path of tokens and separators
Split(path, separator) == SelectSeq(path, LAMBDA t : t # separator)

RECURSIVE getDataPath(_, _)
\* getDataPath(): the value found by following the tokens of a "/" path
getDataPath(value, tokens) ==
  IF tokens = <<>> THEN value
  ELSE IF value.kind = "array"
       THEN IF IndexOf(Head(tokens)) + 1 \in DOMAIN value.items
            THEN getDataPath(value.items[IndexOf(Head(tokens)) + 1], Tail(tokens))
            ELSE Undefined
       ELSE IF value.kind = "model" /\ Head(tokens) \in DOMAIN value.rels
            THEN getDataPath(value.rels[Head(tokens)], Tail(tokens))
            ELSE Undefined

RECURSIVE MergeExpression(_, _)
MergeExpression(a, b) ==
  [key \in DOMAIN a \cup DOMAIN b |->
     IF key \in DOMAIN a /\ key \in DOMAIN b THEN MergeExpression(a[key], b[key])
     ELSE IF key \in DOMAIN a THEN a[key] ELSE b[key]]

RECURSIVE modelGraphToExpression(_, _)
\* modelGraphToExpression(): the tree of the relation names present in a graph
modelGraphToExpression(modelGraph, expr) ==
  IF modelGraph.kind = "array"
  THEN IF modelGraph.items = <<>> THEN expr
       ELSE modelGraphToExpression(
              Arr(Tail(modelGraph.items)),
              modelGraphToExpression(Head(modelGraph.items), expr))
  ELSE MergeExpression(expr,
         [name \in DOMAIN modelGraph.rels |->
            modelGraphToExpression(modelGraph.rels[name], <<>>)])

\* ------------------------------------------------------------------------
\* GraphProcessor
\* ------------------------------------------------------------------------

appendPath(path, separator, token) ==
  IF path # <<>> THEN path \o <<separator, token>> ELSE <<token>>

ownerOptions == [relate |-> FALSE, unrelate |-> FALSE]

\* a variant of getGraphOptions() without the fallback for owner relations:
\* C7 fails with it
getGraphOptionsNoOwner(relation) ==
  IF relation.graphOptions.defined THEN relation.graphOptions.opts ELSE <<>>

getGraphOptions(relation) ==
  IF relation.graphOptions.defined THEN relation.graphOptions.opts
  ELSE IF relation.owner THEN ownerOptions
  ELSE <<>>

RECURSIVE processModelClass(_, _, _, _), collectRelations(_, _, _, _, _)

\* the body of collectOverrides' processModelClass; st holds `processed`,
\* this.overrides and this.numOverrides
processModelClass(st, modelClass, defs, opts) ==
  IF modelClass \in st.processed THEN st
  ELSE collectRelations([st EXCEPT !.processed = @ \cup {modelClass}],
                        modelClass, 1, defs, opts)

\* the loop over the relations of modelClass, from the i-th on
collectRelations(st, modelClass, i, defs, opts) ==
  IF i > Len(RelationArray[modelClass]) THEN st
  ELSE LET name == RelationArray[modelClass][i]
           graphOptions == getGraphOptions(defs[name])
           found == { key \in DOMAIN opts :
                        /\ key \in DOMAIN graphOptions
                        /\ graphOptions[key] # opts[key]
                        /\ key \notin DOMAIN st.overrides }
           st1 == [st EXCEPT
                     !.numOverrides = @ + Cardinality(found),
                     !.overrides = [key \in found |-> <<>>] @@ @]
           st2 == IF st1.numOverrides < Cardinality(DOMAIN opts)
                  THEN processModelClass(
                         st1, RelationInstances[name].relatedModelClass, defs, opts)
                  ELSE st1
       IN collectRelations(st2, modelClass, i + 1, defs, opts)

\* a variant of collectOverrides() that looks at the relations of the root
\* model class only: C26 fails with it
collectOverridesOfRoot(defs, opts) ==
  collectRelations([processed |-> ModelClasses, overrides |-> <<>>, numOverrides |-> 0],
                   "A", 1, defs, opts)

collectOverrides(defs, opts) ==
  processModelClass([processed |-> {}, overrides |-> <<>>, numOverrides |-> 0],
                    "A", defs, opts)

RECURSIVE processExpression(_, _, _, _, _, _, _), processChildren(_, _, _, _, _, _, _)

\* processOverrides' processExpression; ovr is this.overrides; relation is a
\* relation name, or "" for the root call that has none
processExpression(ovr, node, modelClass, relation, relationPath, defs, opts) ==
  LET graphOptions == getGraphOptions(defs[relation])
      option(key) == IF key \in DOMAIN graphOptions
                     THEN graphOptions[key] ELSE opts[key]
      ovr1 == IF relation # ""
              THEN [key \in DOMAIN ovr |->
                      IF option(key) THEN Append(ovr[key], relationPath)
                      ELSE ovr[key]]
              ELSE ovr
  IN processChildren(ovr1, node, modelClass, 1, relationPath, defs, opts)

\* the loop over the keys of node, from the i-th relation of modelClass on
processChildren(ovr, node, modelClass, i, relationPath, defs, opts) ==
  IF i > Len(RelationArray[modelClass]) THEN ovr
  ELSE LET key == RelationArray[modelClass][i]
           ovr1 == IF key \in DOMAIN node
                   THEN processExpression(
                          ovr, node[key],
                          RelationInstances[key].relatedModelClass, key,
                          appendPath(relationPath, ".", key), defs, opts)
                   ELSE ovr
       IN processChildren(ovr1, node, modelClass, i + 1, relationPath, defs, opts)

\* a variant of processOverrides() that takes the global option for every
\* relation, whatever its own graph options: C27 fails with it
processOverridesGlobally(ovr, graph, defs, opts) ==
  processChildren(ovr, modelGraphToExpression(graph, <<>>), "A", 1, <<>>,
                  [name \in DOMAIN defs |-> RelationDef(NoGraphOptions, FALSE)], opts)

processOverrides(ovr, graph, defs, opts) ==
  processChildren(ovr, modelGraphToExpression(graph, <<>>), "A", 1, <<>>, defs, opts)

\* a variant of the constructor that always creates this.removedRelations:
\* C6 fails with it
ConstructRecording(input, opts, defs, setting) ==
  LET collected == IF setting.processOverrides
                   THEN collectOverrides(defs, opts)
                   ELSE [processed |-> {}, overrides |-> <<>>, numOverrides |-> 0]
      graph == ensureModelArray(input)
  IN [data |-> graph,
      isArray |-> isArray(input),
      options |-> opts,
      numOptions |-> Cardinality(DOMAIN opts),
      numOverrides |-> collected.numOverrides,
      overrides |-> IF collected.numOverrides > 0
                    THEN processOverrides(collected.overrides, graph, defs, opts)
                    ELSE collected.overrides,
      removedRelations |-> [truthy |-> TRUE, map |-> <<>>]]

\* the state of a GraphProcessor after its constructor
Construct(input, opts, defs, setting) ==
  LET collected == IF setting.processOverrides
                   THEN collectOverrides(defs, opts)
                   ELSE [processed |-> {}, overrides |-> <<>>, numOverrides |-> 0]
      graph == ensureModelArray(input)
  IN [data |-> graph,
      isArray |-> isArray(input),
      options |-> opts,
      numOptions |-> Cardinality(DOMAIN opts),
      numOverrides |-> collected.numOverrides,
      overrides |-> IF collected.numOverrides > 0
                    THEN processOverrides(collected.overrides, graph, defs, opts)
                    ELSE collected.overrides,
      removedRelations |-> [truthy |-> setting.restoreRelations, map |-> <<>>]]

\* a variant of shouldRelate() that does not consult this.overrides: C2 fails
\* with it
shouldRelateGlobally(relationPath, ovr, opts) ==
  IF relationPath # <<>>
  THEN IF "relate" \in DOMAIN opts
       THEN IF opts.relate THEN "true" ELSE "false"
       ELSE "undefined"
  ELSE "undefined"

\* a variant of shouldRelate() that does not exempt the root path: C3 fails
\* with it
shouldRelateRoot(relationPath, ovr, opts) ==
  IF "relate" \in DOMAIN ovr
  THEN IF \E i \in DOMAIN ovr.relate : ovr.relate[i] = relationPath
       THEN "true" ELSE "false"
  ELSE IF "relate" \in DOMAIN opts
       THEN IF opts.relate THEN "true" ELSE "false"
       ELSE "undefined"

\* shouldRelate(): "true", "false" or "undefined"
shouldRelate(relationPath, ovr, opts) ==
  IF relationPath # <<>>
  THEN IF "relate" \in DOMAIN ovr
       THEN IF \E i \in DOMAIN ovr.relate : ovr.relate[i] = relationPath
            THEN "true" ELSE "false"
       ELSE IF "relate" \in DOMAIN opts
            THEN IF opts.relate THEN "true" ELSE "false"
            ELSE "undefined"
  ELSE "undefined"

\* objection's Model.$clone(): a shallow clone has no relations
ModelClone(model, shallow) == IF shallow THEN [model EXCEPT !.rels = <<>>] ELSE model

RECURSIVE processRelates(_, _, _, _, _, _)
RECURSIVE processRelations(_, _, _, _, _, _, _), processEntries(_, _, _, _, _, _, _)

\* a variant of processRelates() whose clone of an instance that relates is
\* not shallow: C4 fails with it
processRelatesKeeping(removed, data, relationPath, dataPath, ovr, opts) ==
  IF data.kind = "model"
  THEN LET relate == shouldRelate(relationPath, ovr, opts) = "true"
           clone == ModelClone(data, FALSE)
       IN IF relate
          THEN LET values == data.rels
                   hasRelations == DOMAIN values # {}
               IN [value |-> clone,
                   removed |-> IF removed.truthy /\ hasRelations
                               THEN [removed EXCEPT !.map = (dataPath :> values) @@ @]
                               ELSE removed]
          ELSE processRelations(removed, clone, 1, relationPath, dataPath, ovr, opts)
  ELSE IF data.kind = "array"
  THEN processEntries(removed, data, 1, relationPath, dataPath, ovr, opts)
  ELSE [value |-> data, removed |-> removed]

\* processRelates(): the processed value together with this.removedRelations
processRelates(removed, data, relationPath, dataPath, ovr, opts) ==
  IF data.kind = "model"
  THEN LET relate == shouldRelate(relationPath, ovr, opts) = "true"
           clone == ModelClone(data, relate)
       IN IF relate
          THEN LET values == data.rels
                   hasRelations == DOMAIN values # {}
               IN [value |-> clone,
                   removed |-> IF removed.truthy /\ hasRelations
                               THEN [removed EXCEPT !.map = (dataPath :> values) @@ @]
                               ELSE removed]
          ELSE processRelations(removed, clone, 1, relationPath, dataPath, ovr, opts)
  ELSE IF data.kind = "array"
  THEN processEntries(removed, data, 1, relationPath, dataPath, ovr, opts)
  ELSE [value |-> data, removed |-> removed]

\* the loop over the relations of a clone that does not relate
processRelations(removed, clone, i, relationPath, dataPath, ovr, opts) ==
  IF i > Len(RelationArray[clone.cls]) THEN [value |-> clone, removed |-> removed]
  ELSE LET name == RelationArray[clone.cls][i]
           res == processRelates(
                    removed,
                    IF name \in DOMAIN clone.rels THEN clone.rels[name] ELSE Undefined,
                    appendPath(relationPath, ".", name),
                    appendPath(dataPath, "/", name), ovr, opts)
           clone1 == IF res.value # Undefined
                     THEN [clone EXCEPT !.rels = (name :> res.value) @@ @]
                     ELSE clone
       IN processRelations(res.removed, clone1, i + 1, relationPath, dataPath, ovr, opts)

\* data.map() over the entries of an array, from the i-th on
processEntries(removed, array, i, relationPath, dataPath, ovr, opts) ==
  IF i > Len(array.items) THEN [value |-> array, removed |-> removed]
  ELSE LET res == processRelates(removed, array.items[i], relationPath,
                                 appendPath(dataPath, "/", IndexStr(i - 1)), ovr, opts)
       IN processEntries(res.removed, [array EXCEPT !.items[i] = res.value],
                         i + 1, relationPath, dataPath, ovr, opts)

\* the place of an object that is none of the objects of the input
NewObject == <<"new">>

\* a variant of $clone() that returns the instance itself: C28 fails with it
cloneAtSame(at) == at

\* objection's Model.$clone(): the clone of the instance at a place of the
\* input is a new object
cloneAt(at) == NewObject

RECURSIVE ReplaceAt(_, _, _)
\* the graph with the object at the tokens of a path replaced: the effect
\* of mutating in place the object that getDataPath() returned
ReplaceAt(value, tokens, obj) ==
  IF tokens = <<>> THEN obj
  ELSE IF value.kind = "array"
       THEN [value EXCEPT !.items[IndexOf(Head(tokens)) + 1] =
               ReplaceAt(@, Tail(tokens), obj)]
       ELSE [value EXCEPT !.rels[Head(tokens)] = ReplaceAt(@, Tail(tokens), obj)]

RECURSIVE InputAt(_, _)
\* the object at a place of the input: array indices and relation names
InputAt(value, at) ==
  IF at = <<>> THEN value
  ELSE IF value.kind = "array"
       THEN InputAt(value.items[IndexOf(Head(at)) + 1], Tail(at))
       ELSE InputAt(value.rels[Head(at)], Tail(at))

RECURSIVE processRelatesInput(_, _, _, _, _)
RECURSIVE processRelationsInput(_, _, _, _, _, _, _), processEntriesInput(_, _, _, _, _, _)

\* the input after processRelates() on the object at a place of it: the
\* assignments of processRelates() go to the clone, and data.map() returns a
\* new array
processRelatesInput(input, at, relationPath, ovr, opts) ==
  IF InputAt(input, at).kind = "model"
  THEN IF shouldRelate(relationPath, ovr, opts) = "true" THEN input
       ELSE processRelationsInput(input, cloneAt(at), InputAt(input, at).cls, 1,
                                  relationPath, ovr, opts)
  ELSE IF InputAt(input, at).kind = "array"
  THEN processEntriesInput(input, at, 1, relationPath, ovr, opts)
  ELSE input

\* clone[name] = value, in the loop over the relations: an assignment to an
\* object of the input changes the input, one to a new object does not
processRelationsInput(input, clone, cls, i, relationPath, ovr, opts) ==
  IF clone = NewObject \/ i > Len(RelationArray[cls]) THEN input
  ELSE LET name == RelationArray[cls][i]
           path == appendPath(relationPath, ".", name)
       IN processRelationsInput(
            IF name \in DOMAIN InputAt(input, clone).rels
            THEN ReplaceAt(
                   processRelatesInput(input, Append(clone, name), path, ovr, opts),
                   Append(clone, name),
                   processRelates([truthy |-> FALSE, map |-> <<>>],
                                  InputAt(input, clone).rels[name],
                                  path, <<>>, ovr, opts).value)
            ELSE input,
            clone, cls, i + 1, relationPath, ovr, opts)

\* the entries of an array of the input, from the i-th on
processEntriesInput(input, at, i, relationPath, ovr, opts) ==
  IF i > Len(InputAt(input, at).items) THEN input
  ELSE processEntriesInput(
         processRelatesInput(input, Append(at, IndexStr(i - 1)), relationPath, ovr, opts),
         at, i + 1, relationPath, ovr, opts)

\* a variant of the loop of restoreRelations() that stops after the first
\* entry: C1 fails with it
restoreFirstEntry(array, map, paths) ==
  IF paths = {} THEN array
  ELSE LET path == CHOOSE p \in paths : TRUE
           tokens == Split(path, "/")
           obj == getDataPath(array, tokens)
       IN ReplaceAt(array, tokens, [obj EXCEPT !.rels = map[path] @@ @])

RECURSIVE restoreEntries(_, _, _)
\* the loop of restoreRelations() over the entries of this.removedRelations
restoreEntries(array, map, paths) ==
  IF paths = {} THEN array
  ELSE LET path == CHOOSE p \in paths : TRUE
           tokens == Split(path, "/")
           obj == getDataPath(array, tokens)
           assigned == [obj EXCEPT !.rels = map[path] @@ @]
       IN restoreEntries(ReplaceAt(array, tokens, assigned), map, paths \ {path})

\* restoreRelations(): the result after the assignments
restoreRelations(removed, res) ==
  LET array == asArray(res)
      map == IF removed.truthy THEN removed.map ELSE <<>>
      restoredArray == restoreEntries(array, map, DOMAIN map)
  IN IF isArray(res) THEN restoredArray ELSE restoredArray.items[1]

\* ------------------------------------------------------------------------
\* State
\* ------------------------------------------------------------------------

VARIABLES
  definitions,       \* relations of the model definitions: graphOptions, owner
  settings,          \* the settings given to the constructor
  data,              \* this.data
  isArrayData,       \* this.isArray
  options,           \* this.options
  overrides,         \* this.overrides
  numOptions,        \* this.numOptions
  numOverrides,      \* this.numOverrides
  removedRelations,  \* this.removedRelations
  returnedData,      \* what the last getData() returned
  returnedOptions,   \* what the last getOptions() returned
  result,            \* the result of the graph write, handed to restoreRelations()
  repeated           \* getData() or getOptions() has been called again

gpVars == <<definitions, settings, data, isArrayData, options, overrides,
            numOptions, numOverrides, removedRelations, returnedData,
            returnedOptions, result, repeated>>

\* the query builders (see the QueryBuilder section for the records)
VARIABLES
  builders,          \* the fields of every QueryBuilder instance
  allowObjs,         \* the objects that builders hold as _allow
  cacheObjs,         \* the objects that builders hold as _propertyRefsCache
  scopeObjs,         \* the arrays that builders hold as _scopes
  constructed,       \* number of PropertyRef objects constructed so far
  outcome            \* the last call: what it returned or threw

qbVars == <<builders, allowObjs, cacheObjs, scopeObjs, constructed, outcome>>

vars == <<gpVars, qbVars>>

NotReturned == [kind |-> "none"]

\* no call has been made on a builder yet
NoCall == [call |-> "none"]

\* ------------------------------------------------------------------------
\* GraphProcessor: construction and operations
\* ------------------------------------------------------------------------

\* no query builder takes part in a graph write
QBIdle ==
  /\ builders = <<>> /\ allowObjs = <<>> /\ cacheObjs = <<>> /\ scopeObjs = <<>>
  /\ constructed = 0 /\ outcome = NoCall

GPInit ==
  \E input \in Inputs, opts \in GlobalOptions, defs \in Definitions,
     setting \in Settings :
    LET gp == Construct(input, opts, defs, setting)
    IN /\ definitions = defs
       /\ settings = setting
       /\ data = gp.data
       /\ isArrayData = gp.isArray
       /\ options = gp.options
       /\ overrides = gp.overrides
       /\ numOptions = gp.numOptions
       /\ numOverrides = gp.numOverrides
       /\ removedRelations = gp.removedRelations
       /\ returnedData = NotReturned
       /\ returnedOptions = NotReturned
       /\ result = NotReturned
       /\ repeated = FALSE
       /\ QBIdle

getOptions == IF numOverrides > 0 THEN overrides @@ options ELSE options

GetOptions ==
  /\ returnedOptions' = [kind |-> "options", value |-> getOptions]
  /\ repeated' = (repeated \/ returnedOptions # NotReturned)
  /\ UNCHANGED <<definitions, settings, data, isArrayData, options, overrides,
                 numOptions, numOverrides, removedRelations, returnedData,
                 result>>
  /\ UNCHANGED qbVars

\* a variant of getData() that processes the data only as long as no relation
\* has been removed: C5 fails with it
getDataOnce ==
  LET res == IF removedRelations.truthy /\ removedRelations.map = <<>>
             THEN processRelates(removedRelations, data, <<>>, <<>>,
                                 overrides, options)
             ELSE [value |-> data, removed |-> removedRelations]
  IN [value |-> IF isArrayData THEN res.value ELSE res.value.items[1],
      removed |-> res.removed,
      data |-> data]

getData ==
  LET res == IF removedRelations.truthy
             THEN processRelates(removedRelations, data, <<>>, <<>>,
                                 overrides, options)
             ELSE [value |-> data, removed |-> removedRelations]
  IN [value |-> IF isArrayData THEN res.value ELSE res.value.items[1],
      removed |-> res.removed,
      data |-> IF removedRelations.truthy
               THEN processRelatesInput(data, <<>>, <<>>, overrides, options)
               ELSE data]

GetData ==
  /\ \E got \in {getData} :
       /\ returnedData' = got.value
       /\ removedRelations' = got.removed
       /\ data' = got.data
  /\ repeated' = (repeated \/ returnedData # NotReturned)
  /\ UNCHANGED <<definitions, settings, isArrayData, options, overrides,
                 numOptions, numOverrides, returnedOptions, result>>
  /\ UNCHANGED qbVars

RECURSIVE WithIds(_, _)
\* the graph as the graph write returns it: same structure, keys as stored
WithIds(value, id) ==
  IF value.kind = "array"
  THEN [value EXCEPT !.items = [i \in DOMAIN @ |-> WithIds(@[i], id)]]
  ELSE [value EXCEPT !.id = id,
                     !.rels = [name \in DOMAIN @ |-> WithIds(@[name], id)]]

\* the external insertGraph / upsertGraph call on the data of getData(); a
\* processor serves one graph write
ExecuteGraph ==
  /\ returnedData # NotReturned
  /\ result = NotReturned
  /\ \E id \in {0, 1} :
       result' = [kind |-> "written", value |-> WithIds(returnedData, id)]
  /\ UNCHANGED <<definitions, settings, data, isArrayData, options, overrides,
                 numOptions, numOverrides, removedRelations, returnedData,
                 returnedOptions, repeated>>
  /\ UNCHANGED qbVars

RestoreRelations ==
  /\ result # NotReturned
  /\ result' = [kind |-> "restored",
                value |-> restoreRelations(removedRelations, result.value)]
  /\ UNCHANGED <<definitions, settings, data, isArrayData, options, overrides,
                 numOptions, numOverrides, removedRelations, returnedData,
                 returnedOptions, repeated>>
  /\ UNCHANGED qbVars

GPNext == GetOptions \/ GetData \/ ExecuteGraph \/ RestoreRelations

GPSpec == GPInit /\ [][GPNext]_vars

\* ------------------------------------------------------------------------
\* Properties of the GraphProcessor
\* ------------------------------------------------------------------------

RECURSIVE Positions(_, _, _)
\* every model instance of a graph, with its structural position (root index,
\* relation names and array indices) and the relation names that lead to it
Positions(value, position, relations) ==
  IF value.kind = "array"
  THEN UNION { Positions(value.items[i], Append(position, IndexStr(i - 1)), relations) :
               i \in DOMAIN value.items }
  ELSE IF value.kind = "model"
  THEN { [position |-> position, relations |-> relations, node |-> value] }
       \cup UNION { Positions(value.rels[name], Append(position, name),
                              Append(relations, name)) :
                    name \in DOMAIN value.rels }
  ELSE {}

RECURSIVE NodeAt(_, _)
\* the value at a structural position of a graph, Undefined when there is none
NodeAt(value, position) ==
  IF position = <<>> THEN value
  ELSE IF value.kind = "array"
       THEN IF \E i \in DOMAIN value.items : IndexStr(i - 1) = Head(position)
            THEN NodeAt(value.items[CHOOSE i \in DOMAIN value.items :
                                      IndexStr(i - 1) = Head(position)],
                        Tail(position))
            ELSE Undefined
       ELSE IF value.kind = "model" /\ Head(position) \in DOMAIN value.rels
            THEN NodeAt(value.rels[Head(position)], Tail(position))
            ELSE Undefined

RECURSIVE Join(_, _)
\* Array.prototype.join()
Join(tokens, separator) ==
  IF Len(tokens) <= 1 THEN tokens
  ELSE <<Head(tokens), separator>> \o Join(Tail(tokens), separator)

AsList(value) == IF value.kind = "array" THEN value ELSE Arr(<<value>>)

\* the instances of the input, and of what getData() returned
InputPositions == Positions(data, <<>>, <<>>)

OutputPositions == Positions(AsList(returnedData), <<>>, <<>>)

LastRelation(pos) == definitions[pos.relations[Len(pos.relations)]]

\* the relation fields of the input instance at the position of pos
InputFields(pos) == DOMAIN NodeAt(data, pos.position).rels

\* the instance that getData() returned at pos has lost its relation fields
IsStub(pos) == pos.node.rels = <<>>

\* the instance that getData() returned at pos has all its relation fields
IsRetained(pos) == DOMAIN pos.node.rels = InputFields(pos)

\* C1: with settings.restoreRelations, after getData(), the graph write and
\* restoreRelations(result), every relation field that getData() stripped from
\* an instance is again on the instance at the same position of the result,
\* with the value it had in the input.
C1_RoundTrip ==
  (settings.restoreRelations /\ result.kind = "restored") =>
    \A pos \in InputPositions :
      LET out == NodeAt(AsList(returnedData), pos.position)
          res == NodeAt(AsList(result.value), pos.position)
      IN out.kind = "model" =>
           \A name \in DOMAIN pos.node.rels \ DOMAIN out.rels :
             /\ res.kind = "model"
             /\ name \in DOMAIN res.rels
             /\ res.rels[name] = pos.node.rels[name]

\* a nested instance was stripped of a relation that holds instances, the
\* write generated keys, and the relations have been restored
C1_Witness ==
  /\ settings.restoreRelations
  /\ result.kind = "restored"
  /\ AsList(result.value).items # <<>>
  /\ AsList(result.value).items[1].id = 1
  /\ \E pos \in OutputPositions :
       /\ Len(pos.position) >= 3
       /\ \E name \in InputFields(pos) \ DOMAIN pos.node.rels :
            Positions(NodeAt(data, pos.position).rels[name], <<>>, <<>>) # {}

\* C2 (as stated): with global relate: true and override processing, an
\* instance reached through a relation that overrides relate: false keeps its
\* relation fields in getData(), and an instance reached through a relation
\* without an override is a stub without relation fields.
C2_Original ==
  (options.relate /\ settings.processOverrides /\ returnedData # NotReturned) =>
    \A pos \in OutputPositions :
      pos.relations # <<>> =>
        LET graphOptions == getGraphOptions(LastRelation(pos))
        IN /\ ("relate" \in DOMAIN graphOptions /\ ~graphOptions.relate)
                => IsRetained(pos)
           /\ "relate" \notin DOMAIN graphOptions => IsStub(pos)

\* C2 (amended): the same, for a processor created with
\* settings.restoreRelations.
C2_OverrideNotRelated ==
  (options.relate /\ settings.processOverrides /\ settings.restoreRelations
     /\ returnedData # NotReturned) =>
    \A pos \in OutputPositions :
      pos.relations # <<>> =>
        LET graphOptions == getGraphOptions(LastRelation(pos))
        IN /\ ("relate" \in DOMAIN graphOptions /\ ~graphOptions.relate)
                => IsRetained(pos)
           /\ "relate" \notin DOMAIN graphOptions => IsStub(pos)

\* two siblings with relation fields in the input: the one under the relation
\* with relate: false has kept them, the one under the relation without
\* override has lost them
C2_Witness ==
  /\ options.relate /\ settings.processOverrides /\ settings.restoreRelations
  /\ returnedData # NotReturned
  /\ \E p, q \in OutputPositions :
       /\ Len(p.relations) = 1 /\ Len(q.relations) = 1
       /\ p.position[1] = q.position[1]
       /\ definitions[p.relations[1]] = RelationDef(GraphOptions([relate |-> FALSE]), FALSE)
       /\ definitions[q.relations[1]] = RelationDef(NoGraphOptions, FALSE)
       /\ InputFields(p) # {} /\ IsRetained(p)
       /\ InputFields(q) # {} /\ IsStub(q)

\* C3: root instances never relate: shouldRelate('') is not true, no root
\* instance that getData() returns has lost a relation field, and no entry of
\* this.removedRelations is recorded under a bare root index.
C3_RootNeverRelates ==
  /\ shouldRelate(<<>>, overrides, options) # "true"
  /\ returnedData # NotReturned =>
       \A pos \in OutputPositions : pos.relations = <<>> => IsRetained(pos)
  /\ \A path \in DOMAIN removedRelations.map : Len(Split(path, "/")) > 1

\* a root instance with relation fields was processed under relate: true
C3_Witness ==
  /\ options.relate /\ settings.restoreRelations /\ ~settings.processOverrides
  /\ returnedData # NotReturned
  /\ \E pos \in OutputPositions :
       pos.relations = <<>> /\ InputFields(pos) # {} /\ IsRetained(pos)
  /\ removedRelations.map # <<>>

\* the data of getData() is reference-stripped: every instance that should
\* relate has no relation fields
Stripped ==
  \A pos \in OutputPositions :
    shouldRelate(Join(pos.relations, "."), overrides, options) = "true"
      => IsStub(pos)

\* C4 (as stated): for every combination of settings, the data that getData()
\* returns is reference-stripped.
C4_Original == returnedData # NotReturned => Stripped

\* C4 (amended): with settings.restoreRelations the data that getData()
\* returns is reference-stripped; without it getData() returns the stored
\* input as it is.
C4_StrippedWhenRestoring ==
  returnedData # NotReturned =>
    IF settings.restoreRelations THEN Stripped
    ELSE AsList(returnedData) = data

\* an instance with relation fields was turned into a stub, below the root
C4_Witness ==
  /\ settings.restoreRelations
  /\ returnedData # NotReturned
  /\ \E pos \in OutputPositions :
       /\ shouldRelate(Join(pos.relations, "."), overrides, options) = "true"
       /\ InputFields(pos) # {}
       /\ IsStub(pos)

\* C5: a repeated getData() returns what the last one returned and changes
\* nothing else, a repeated getOptions() returns what the last one returned,
\* and getOptions() never changes anything.
C5_StableReads ==
  [][/\ (GetData /\ returnedData # NotReturned) =>
          /\ returnedData' = returnedData
          /\ UNCHANGED <<removedRelations, overrides, data, options>>
     /\ GetOptions =>
          /\ returnedOptions # NotReturned => returnedOptions' = returnedOptions
          /\ UNCHANGED <<removedRelations, overrides, data, options, returnedData>>
    ]_vars

\* a call was repeated on a processor that had removed relations and that has
\* overrides
C5_Witness ==
  /\ repeated
  /\ returnedData # NotReturned /\ returnedOptions # NotReturned
  /\ removedRelations.map # <<>>
  /\ numOverrides > 0

\* C6 (as stated): the map is populated only when restoring is requested, and
\* holds no entries once restoreRelations() has been called.
C6_Original ==
  /\ removedRelations.map # <<>> => settings.restoreRelations
  /\ result.kind = "restored" => removedRelations.map = <<>>

\* C6 (amended): the map is populated only when restoring is requested;
\* restoreRelations() leaves it as it is, and a second call assigns the same
\* values again, leaving the result as it is.
C6_MapKept ==
  /\ [](removedRelations.map # <<>> => settings.restoreRelations)
  /\ [][RestoreRelations =>
          /\ removedRelations' = removedRelations
          /\ result.kind = "restored" => result' = result]_vars

\* relations have been restored from a map with entries
C6_Witness ==
  /\ result.kind = "restored"
  /\ removedRelations.map # <<>>
  /\ result.value # returnedData

\* no instance under the relation is a stub, and no path that ends with the
\* relation is recorded for relate
NeverRelated(name) ==
  /\ returnedData # NotReturned =>
       \A pos \in OutputPositions :
         (pos.relations # <<>> /\ pos.relations[Len(pos.relations)] = name)
           => IsRetained(pos)
  /\ "relate" \in DOMAIN overrides =>
       \A i \in DOMAIN overrides.relate :
         overrides.relate[i][Len(overrides.relate[i])] # name

\* C7 (as stated): every owner relation has the effective options
\* relate: false, unrelate: false, whether or not it has graphOptions of its
\* own, and is never related.
C7_Original ==
  \A name \in RelationNames :
    definitions[name].owner =>
      /\ getGraphOptions(definitions[name]) = ownerOptions
      /\ NeverRelated(name)

\* C7 (amended): an owner relation without graphOptions of its own has the
\* effective options relate: false, unrelate: false (graphOptions of its own
\* replace them), and with settings.processOverrides it is never related.
C7_OwnerFallback ==
  \A name \in RelationNames :
    (definitions[name].owner /\ ~definitions[name].graphOptions.defined) =>
      /\ getGraphOptions(definitions[name]) = ownerOptions
      /\ settings.processOverrides => NeverRelated(name)

\* an instance with relation fields under an owner relation was processed
\* under relate: true and has kept them
C7_Witness ==
  /\ options.relate /\ settings.processOverrides /\ settings.restoreRelations
  /\ returnedData # NotReturned
  /\ \E pos \in OutputPositions :
       /\ pos.relations # <<>>
       /\ LastRelation(pos) = RelationDef(NoGraphOptions, TRUE)
       /\ InputFields(pos) # {}
       /\ IsRetained(pos)

\* ------------------------------------------------------------------------
\* QueryBuilder: values, errors and the model classes that are queried
\* ------------------------------------------------------------------------

\* values of query parameters; a string is its sequence of tokens
VStr(tokens) == [kind |-> "string", tokens |-> tokens]

VNum(n) == [kind |-> "number", n |-> n]

VNull == [kind |-> "null"]

VUndefined == [kind |-> "undefined"]

\* an object is the sequence of its entries, in the order of Object.entries()
VObj(entries) == [kind |-> "object", entries |-> entries]

VList(items) == [kind |-> "array", items |-> items]

isString(value) == value.kind = "string"

isObject(value) == value.kind = "object"

Truthy(value) ==
  CASE value.kind = "string" -> value.tokens # <<>>
    [] value.kind = "number" -> value.n # 0
    [] value.kind \in {"null", "undefined"} -> FALSE
    [] OTHER -> TRUE

NoError == [type |-> "none"]

QueryError(message) == [type |-> "QueryError", message |-> message]

TypeError == [type |-> "TypeError"]

RECURSIVE SplitOn(_, _)
\* String.prototype.split(): the parts between the separators
SplitOn(tokens, separator) ==
  IF \E i \in DOMAIN tokens : tokens[i] = separator
  THEN LET i == CHOOSE i \in DOMAIN tokens :
                  /\ tokens[i] = separator
                  /\ \A j \in 1..(i - 1) : tokens[j] # separator
       IN <<SubSeq(tokens, 1, i - 1)>>
            \o SplitOn(SubSeq(tokens, i + 1, Len(tokens)), separator)
  ELSE <<tokens>>

\* the model classes: their properties and relations
ModelDefinitions ==
  [Person  |-> [properties |-> {"firstName", "lastName"},
                relations |-> [pet      |-> [relatedModelClass |-> "Pet",
                                             oneToOne |-> TRUE],
                               messages |-> [relatedModelClass |-> "Message",
                                             oneToOne |-> FALSE]]],
   Pet     |-> [properties |-> {"name"}, relations |-> <<>>],
   Message |-> [properties |-> {"text"}, relations |-> <<>>]]

\* ------------------------------------------------------------------------
\* PropertyRef
\* ------------------------------------------------------------------------

RECURSIVE WalkPath(_, _, _)
\* follows the segments of a path: all but the last name relations, the last
\* one names a property of the model class that they lead to
WalkPath(modelClass, segments, relation) ==
  IF Len(segments) = 1
  THEN [ok |-> segments[1] \in ModelDefinitions[modelClass].properties,
        modelClass |-> modelClass, relation |-> relation]
  ELSE IF Head(segments) \in DOMAIN ModelDefinitions[modelClass].relations
       THEN WalkPath(
              ModelDefinitions[modelClass].relations[Head(segments)].relatedModelClass,
              Tail(segments), Head(segments))
       ELSE [ok |-> FALSE, modelClass |-> modelClass, relation |-> relation]

\* new PropertyRef(str, modelClass, parseDir, allowed): the object, or the
\* error that the constructor throws
PropertyRef(str, modelClass, parseDir, allowed, oid) ==
  LET words == IF parseDir THEN SplitOn(str, " ") ELSE <<str>>
      key  == words[1]
      dir  == IF Len(words) > 1 THEN words[2] ELSE <<>>
      path == Split(key, ".")
      walk == WalkPath(modelClass, path, "")
  IN IF path = <<>> \/ ~walk.ok
     THEN [error |-> QueryError("InvalidReference"), ref |-> VUndefined]
     ELSE IF allowed.supplied /\ allowed.keys # {} /\ key \notin allowed.keys
     THEN [error |-> QueryError("NotAllowed"), ref |-> VUndefined]
     ELSE [error |-> NoError,
           ref |-> [oid |-> oid,
                    key |-> key,
                    path |-> path,
                    propertyName |-> path[Len(path)],
                    relationPath |-> SubSeq(path, 1, Len(path) - 1),
                    relation |-> walk.relation,
                    modelClass |-> walk.modelClass,
                    dir |-> dir]]

\* PropertyRef.fullColumnName()
fullColumnName(ref) == <<ref.modelClass, ".", ref.propertyName>>

\* ------------------------------------------------------------------------
\* QueryBuilder.  Its operations take the world w (the builders, the objects
\* they refer to and the number of PropertyRef objects) and give a record
\* with the world afterwards, the error thrown if any, and the value returned.
\* ------------------------------------------------------------------------

\* the builders (a builder and the clone made of it), and the addresses of
\* the objects that they refer to: a builder has at most one object of a kind
BuilderIds == {1, 2}

Addresses == BuilderIds

\* a field that holds null
Null == 0

Return(w, value) == [w |-> w, error |-> NoError, value |-> value]

Throw(w, error) == [w |-> w, error |-> error, value |-> VUndefined]

\* the state of `new QueryBuilder(modelClass)`, with its objects at address a
NewBuilder(a) ==
  [_allow |-> Null,
   _propertyRefsCache |-> a,
   _applyDefaultEager |-> TRUE,
   _applyDefaultOrder |-> TRUE,
   _scopes |-> a,
   _relationsToJoin |-> <<>>,
   operations |-> <<>>]

\* an address of allowObjs that no builder refers to
FreeAllow(w) ==
  CHOOSE a \in Addresses :
    /\ \A b \in DOMAIN w.builders : w.builders[b]._allow # a
    /\ \A c \in 1..(a - 1) : \E b \in DOMAIN w.builders : w.builders[b]._allow = c

\* objects that no builder refers to any more are dropped
CollectAllow(w) ==
  [w EXCEPT !.allowObjs =
     [a \in Addresses |->
        IF \E b \in DOMAIN w.builders : w.builders[b]._allow = a
        THEN @[a] ELSE {}]]

\* the builder's own sequence of operations (objection's QueryBuilder)
AddOperation(w, b, operation) ==
  [w EXCEPT !.builders[b].operations = Append(@, operation)]

RECURSIVE mapPropertyRefs(_, _, _, _, _, _, _)
\* a variant of the refs.map() of getPropertyRefs() that does not look into
\* the cache: C10 fails with it
mapPropertyRefsAnew(w, b, refs, i, parseDir, checkAllow, mapped) ==
  IF i > Len(refs) THEN Return(w, mapped)
  ELSE LET ref == refs[i]
           this == w.builders[b]
           allowed == IF checkAllow /\ this._allow # Null
                      THEN [supplied |-> TRUE, keys |-> w.allowObjs[this._allow]]
                      ELSE [supplied |-> FALSE, keys |-> {}]
           made == PropertyRef(ref, "Person", parseDir, allowed, w.constructed + 1)
       IN IF made.error # NoError THEN Throw(w, made.error)
          ELSE mapPropertyRefs(
                 [w EXCEPT !.cacheObjs[this._propertyRefsCache] = (ref :> made.ref) @@ @,
                           !.constructed = @ + 1],
                 b, refs, i + 1, parseDir, checkAllow, Append(mapped, made.ref))

\* the refs.map() of getPropertyRefs(), from the i-th ref on
mapPropertyRefs(w, b, refs, i, parseDir, checkAllow, mapped) ==
  IF i > Len(refs) THEN Return(w, mapped)
  ELSE LET ref == refs[i]
           this == w.builders[b]
           cache == w.cacheObjs[this._propertyRefsCache]
           allowed == IF checkAllow /\ this._allow # Null
                      THEN [supplied |-> TRUE, keys |-> w.allowObjs[this._allow]]
                      ELSE [supplied |-> FALSE, keys |-> {}]
           made == PropertyRef(ref, "Person", parseDir, allowed, w.constructed + 1)
       IN IF ref \in DOMAIN cache
          THEN mapPropertyRefs(w, b, refs, i + 1, parseDir, checkAllow,
                               Append(mapped, cache[ref]))
          ELSE IF made.error # NoError THEN Throw(w, made.error)
          ELSE mapPropertyRefs(
                 [w EXCEPT !.cacheObjs[this._propertyRefsCache] = (ref :> made.ref) @@ @,
                           !.constructed = @ + 1],
                 b, refs, i + 1, parseDir, checkAllow, Append(mapped, made.ref))

\* getPropertyRefs(refs, { parseDir, checkAllow })
getPropertyRefs(w, b, refs, parseDir, checkAllow) ==
  mapPropertyRefs(w, b,
                  IF isString(refs) THEN SplitOn(refs.tokens, "|") ELSE refs.items,
                  1, parseDir, checkAllow, <<>>)

\* allow(refs)
allow(w, b, refs) ==
  IF Truthy(refs)
  THEN LET w1 == IF w.builders[b]._allow = Null
                 THEN [w EXCEPT !.builders[b]._allow = FreeAllow(w),
                                !.allowObjs[FreeAllow(w)] = {}]
                 ELSE w
           got == getPropertyRefs(w1, b, refs, FALSE, FALSE)
       IN IF got.error # NoError THEN got
          ELSE Return(
                 [got.w EXCEPT !.allowObjs[got.w.builders[b]._allow] =
                    @ \cup { got.value[i].key : i \in DOMAIN got.value }],
                 VUndefined)
  ELSE Return(CollectAllow([w EXCEPT !.builders[b]._allow = Null]), VUndefined)

\* mergeScope(...scopes)
RECURSIVE mergeScope(_, _, _)
mergeScope(w, b, scopes) ==
  IF scopes = <<>> THEN w
  ELSE LET array == w.scopeObjs[w.builders[b]._scopes]
           scope == Head(scopes)
           includes == isString(scope) /\ \E i \in DOMAIN array : array[i] = scope
       IN mergeScope(
            IF includes THEN w
            ELSE [w EXCEPT !.scopeObjs[w.builders[b]._scopes] = Append(@, scope)],
            b, Tail(scopes))

\* clearScope(): the new array is at an address that no other builder refers
\* to; the array that the builder referred to stays with the builders that
\* share it
clearScope(w, b) ==
  LET free == CHOOSE a \in Addresses :
                \A c \in DOMAIN w.builders \ {b} : w.builders[c]._scopes # a
  IN [w EXCEPT !.builders[b]._scopes = free, !.scopeObjs[free] = <<>>]

\* scope(...scopes)
scope(w, b, scopes) == mergeScope(clearScope(w, b), b, scopes)

\* clone(): the new builder, at the next builder id, holds what the fields of
\* this builder hold
clone(w, b) ==
  LET id == CHOOSE c \in BuilderIds : c \notin DOMAIN w.builders
  IN [w |-> [w EXCEPT !.builders = @ @@ (id :> w.builders[b])],
      error |-> NoError,
      value |-> VNum(id)]

\* eager(...args)
eager(w, b, args) ==
  AddOperation([w EXCEPT !.builders[b]._applyDefaultEager = FALSE],
               b, [method |-> "eager", args |-> args])

\* clearEager()
clearEager(w, b) ==
  AddOperation([w EXCEPT !.builders[b]._applyDefaultEager = FALSE],
               b, [method |-> "clearEager", args |-> <<>>])

\* orderBy(...args)
orderBy(w, b, args) ==
  AddOperation([w EXCEPT !.builders[b]._applyDefaultOrder = FALSE],
               b, [method |-> "orderBy", args |-> args])

\* clearOrder()
clearOrder(w, b) == [w EXCEPT !.builders[b]._applyDefaultOrder = FALSE]

\* isFindQuery() of objection: the builder holds no write operation
isFindQuery(this) ==
  \A i \in DOMAIN this.operations :
    this.operations[i].method \notin {"insert", "update", "patch", "delete"}

\* hasSelects(): the builder holds a select operation
hasSelects(this) ==
  \E i \in DOMAIN this.operations :
    this.operations[i].method \in {"select", "count"}

RECURSIVE applyFilters(_, _, _, _)
\* the loop of execute() over the scopes, from the i-th on
applyFilters(w, b, scopes, i) ==
  IF i > Len(scopes) THEN w
  ELSE applyFilters(
         AddOperation(w, b, [method |-> "applyFilter", args |-> <<scopes[i]>>]),
         b, scopes, i + 1)

\* a variant of the defaults of execute() that looks neither at the kind of
\* the query nor at the two booleans: C22 fails with it
applyDefaultsAlways(w, b, modelClass) ==
  LET w1 == IF Truthy(modelClass.defaultEager)
            THEN AddOperation(w, b, [method |-> "mergeEager",
                                     args |-> <<modelClass.defaultEager>>])
            ELSE w
  IN IF Truthy(modelClass.defaultOrder)
     THEN orderBy(w1, b, <<modelClass.defaultOrder>>)
     ELSE w1

\* the default eager expression and the default order of execute()
applyDefaults(w, b, modelClass) ==
  LET this == w.builders[b]
      w1 == IF Truthy(modelClass.defaultEager) /\ this._applyDefaultEager
            THEN AddOperation(w, b, [method |-> "mergeEager",
                                     args |-> <<modelClass.defaultEager>>])
            ELSE w
  IN IF isFindQuery(this) /\ ~hasSelects(this)
     THEN IF Truthy(modelClass.defaultOrder) /\ this._applyDefaultOrder
          THEN orderBy(w1, b, <<modelClass.defaultOrder>>)
          ELSE w1
     ELSE w

\* a variant of execute() that applies the scopes first: C21 fails with it
executeScopesFirst(w, b, modelClass) ==
  LET done == applyDefaults(
                applyFilters(w, b, w.scopeObjs[w.builders[b]._scopes], 1),
                b, modelClass)
  IN Return(done, done.builders[b].operations)

\* execute(), for the defaults of this.modelClass(); the value returned is
\* the sequence of operations that super.execute() runs
execute(w, b, modelClass) ==
  LET done == applyFilters(applyDefaults(w, b, modelClass),
                           b, w.scopeObjs[w.builders[b]._scopes], 1)
  IN Return(done, done.builders[b].operations)

\* ------------------------------------------------------------------------
\* Query filters
\* ------------------------------------------------------------------------

\* where(builder, ref, operator, value, method); "" stands for no operator
where(ref, operator, value, method) ==
  [method |-> method,
   args |-> IF operator # ""
            THEN <<VStr(fullColumnName(ref)), VStr(<<operator>>), value>>
            ELSE IF value # VUndefined
                 THEN <<VStr(fullColumnName(ref)), value>>
                 ELSE <<VStr(fullColumnName(ref))>>]

\* the filters of the `queryFilters` literal
literalFilters ==
  [in         |-> [kind |-> "split", method |-> "whereIn"],
   notIn      |-> [kind |-> "split", method |-> "whereNotIn"],
   between    |-> [kind |-> "split", method |-> "whereBetween"],
   notBetween |-> [kind |-> "split", method |-> "whereNotBetween"],
   null       |-> [kind |-> "column", method |-> "whereNull"],
   notNull    |-> [kind |-> "column", method |-> "whereNotNull"],
   empty      |-> [kind |-> "fixed", operator |-> "="],
   notEmpty   |-> [kind |-> "fixed", operator |-> ">"]]

operators ==
  [eq         |-> "=",
   ne         |-> "!=",
   not        |-> "is not",
   lt         |-> "<",
   lte        |-> "<=",
   gt         |-> ">",
   gte        |-> ">=",
   between    |-> "between",
   notBetween |-> "not between",
   like       |-> "like",
   noteLike   |-> "not like",
   iLike      |-> "ilike",
   notILike   |-> "not ilike"]

\* the registry after the loop that installs a filter for every operator
queryFilters ==
  [key \in DOMAIN operators |-> [kind |-> "operator", operator |-> operators[key]]]
    @@ literalFilters

\* the call queryFilter(builder, ref, value): { method, args } or the error
callQueryFilter(queryFilter, ref, value) ==
  CASE queryFilter.kind = "split" ->
         IF isString(value)
         THEN [error |-> NoError,
               filter |-> where(ref, "",
                                LET parts == SplitOn(value.tokens, ",")
                                IN VList([i \in DOMAIN parts |-> VStr(parts[i])]),
                                queryFilter.method)]
         ELSE [error |-> TypeError, filter |-> VUndefined]
    [] queryFilter.kind = "column" ->
         [error |-> NoError,
          filter |-> where(ref, "", VUndefined, queryFilter.method)]
    [] queryFilter.kind = "fixed" ->
         [error |-> NoError,
          filter |-> where(ref, queryFilter.operator, VStr(<<>>), "where")]
    [] queryFilter.kind = "operator" ->
         [error |-> NoError,
          filter |-> where(ref, queryFilter.operator, value, "where")]

\* PropertyRef.applyQueryFilter(): the operation that the filter stands for
applyQueryFilter(ref, queryFilter, value, boolOp) ==
  LET called == callQueryFilter(queryFilter, ref, value)
  IN IF ref.relation # ""
        /\ ~ModelDefinitions["Person"].relations[ref.relation].oneToOne
     THEN [error |-> QueryError("UnsupportedQuery"), operation |-> VUndefined]
     ELSE IF called.error # NoError
     THEN [error |-> called.error, operation |-> VUndefined]
     ELSE [error |-> NoError,
           operation |-> [method |-> called.filter.method,
                          args |-> called.filter.args,
                          boolOp |-> boolOp]]

RECURSIVE applyQueryFilters(_, _, _, _, _)
\* the filters of several refs, combined with `or`
applyQueryFilters(refs, i, queryFilter, value, applied) ==
  IF i > Len(refs) THEN [error |-> NoError, operations |-> applied]
  ELSE LET one == applyQueryFilter(refs[i], queryFilter, value, "or")
       IN IF one.error # NoError
          THEN [error |-> one.error, operations |-> applied]
          ELSE applyQueryFilters(refs, i + 1, queryFilter, value,
                                 Append(applied, one.operation))

\* _relationsToJoin[relation.name] = relation, for the one-to-one relations
RECURSIVE joinRelations(_, _, _)
joinRelations(toJoin, refs, i) ==
  IF i > Len(refs) THEN toJoin
  ELSE LET relation == refs[i].relation
           oneToOne == /\ relation # ""
                       /\ ModelDefinitions["Person"].relations[relation].oneToOne
       IN joinRelations(
            IF oneToOne /\ ~\E j \in DOMAIN toJoin : toJoin[j] = relation
            THEN Append(toJoin, relation) ELSE toJoin,
            refs, i + 1)

\* parseQueryFilter() once getPropertyRefs() has returned or thrown: the
\* relations to join are collected and the filter is applied to the refs
filterPropertyRefs(got, b, queryFilter, value) ==
  IF got.error # NoError THEN got
  ELSE LET propertyRefs == got.value
           w1 == [got.w EXCEPT !.builders[b]._relationsToJoin =
                    joinRelations(@, propertyRefs, 1)]
       IN IF Len(propertyRefs) = 1
          THEN LET one == applyQueryFilter(propertyRefs[1], queryFilter, value, "")
               IN IF one.error # NoError THEN Throw(w1, one.error)
                  ELSE Return(AddOperation(w1, b, one.operation), VUndefined)
          ELSE LET all == applyQueryFilters(propertyRefs, 1, queryFilter, value, <<>>)
               IN IF all.error # NoError THEN Throw(w1, all.error)
                  ELSE Return(AddOperation(w1, b, [method |-> "where",
                                                   group |-> all.operations]),
                              VUndefined)

\* a variant of parseQueryFilter() that takes the equality filter for every
\* key without a suffix, also when the value is null: C18 fails with it
parseQueryFilterEq(w, b, key, value) ==
  LET parts == SplitOn(key, ":")
      name  == IF Len(parts) = 1 THEN "eq"
               ELSE IF Len(parts) = 2 /\ Len(parts[2]) = 1 THEN parts[2][1]
               ELSE ""
  IN IF name \notin DOMAIN queryFilters THEN Throw(w, QueryError("Invalid filter"))
     ELSE filterPropertyRefs(getPropertyRefs(w, b, VStr(parts[1]), FALSE, TRUE),
                             b, queryFilters[name], value)

\* parseQueryFilter(key, value)
parseQueryFilter(w, b, key, value) ==
  LET parts == SplitOn(key, ":")
      name  == IF Len(parts) = 1
               THEN (IF value = VNull THEN "null" ELSE "eq")
               ELSE IF Len(parts) = 2 /\ Len(parts[2]) = 1 THEN parts[2][1]
               ELSE ""
  IN IF name \notin DOMAIN queryFilters THEN Throw(w, QueryError("Invalid filter"))
     ELSE filterPropertyRefs(getPropertyRefs(w, b, VStr(parts[1]), FALSE, TRUE),
                             b, queryFilters[name], value)

\* ------------------------------------------------------------------------
\* Query handlers and find()
\* ------------------------------------------------------------------------

\* the keys of `queryHandlers`, the join handlers included
queryHandlerKeys ==
  {"where", "eager", "omit", "pick", "scope", "range", "limit", "offset", "order",
   "join", "innerJoin", "outerJoin", "leftJoin", "leftOuterJoin", "rightJoin",
   "rightOuterJoin", "fullOuterJoin"}

RECURSIVE processPropertyRefs(_, _, _, _, _), processSubEntries(_, _, _, _, _, _)
RECURSIVE processListEntries(_, _, _, _)

\* the loop over the entries of an object value goes on after an entry,
\* unless processPropertyRefs() has thrown
nextSubEntry(done, b, entries, i, key, parts) ==
  IF done.error # NoError THEN done
  ELSE processSubEntries(done.w, b, entries, i, key, parts)

\* the loop over the entries of an array value goes on after an entry,
\* unless processPropertyRefs() has thrown
nextListEntry(done, b, items, i) ==
  IF done.error # NoError THEN done
  ELSE processListEntries(done.w, b, items, i)

\* processPropertyRefs(key, value, parts) of the `where` handler; a key that
\* is null is "", parts that are undefined have defined = FALSE
processPropertyRefs(w, b, key, value, parts) ==
  IF isObject(value)
  THEN processSubEntries(w, b, value.entries, 1, key, parts)
  ELSE IF parts.defined
  THEN LET filterName == key \in DOMAIN queryFilters
           path == IF filterName THEN parts.list ELSE Append(parts.list, key)
           ref  == Join(path, ".") \o (IF filterName THEN <<":", key>> ELSE <<>>)
       IN parseQueryFilter(w, b, ref, value)
  ELSE IF isString(value)
  THEN LET sides == SplitOn(value.tokens, "=")
       IN parseQueryFilter(w, b, sides[1],
                           IF Len(sides) > 1 THEN VStr(sides[2]) ELSE VUndefined)
  ELSE IF value.kind = "array"
  THEN processListEntries(w, b, value.items, 1)
  ELSE Throw(w, QueryError("Unsupported 'where' query"))

\* the loop over the entries of an object value, from the i-th on
processSubEntries(w, b, entries, i, key, parts) ==
  IF i > Len(entries) THEN Return(w, VUndefined)
  ELSE nextSubEntry(
         processPropertyRefs(
           w, b, entries[i].key, entries[i].value,
           IF parts.defined
           THEN [defined |-> TRUE, list |-> Append(parts.list, key)]
           ELSE [defined |-> TRUE, list |-> <<>>]),
         b, entries, i + 1, key, parts)

\* the loop over the entries of an array value, from the i-th on
processListEntries(w, b, items, i) ==
  IF i > Len(items) THEN Return(w, VUndefined)
  ELSE nextListEntry(
         processPropertyRefs(w, b, "", items[i], [defined |-> FALSE, list |-> <<>>]),
         b, items, i + 1)

\* the decimal digits, in the order of their character codes
Digits == <<"0", "1", "2", "3", "4", "5", "6", "7", "8", "9">>

DigitOf(token) == (CHOOSE i \in DOMAIN Digits : Digits[i] = token) - 1

RECURSIVE ToNumber(_, _)
\* Number(string) of a string of digits, after the number n of the digits
\* before them
ToNumber(tokens, n) ==
  IF tokens = <<>> THEN n
  ELSE ToNumber(Tail(tokens), 10 * n + DigitOf(Head(tokens)))

\* the global isNaN(value): Number(value) is NaN
isNaN(value) ==
  CASE value.kind = "string" ->
         \E i \in DOMAIN value.tokens :
           \A d \in DOMAIN Digits : Digits[d] # value.tokens[i]
    [] value.kind \in {"number", "null"} -> FALSE
    [] OTHER -> TRUE

RECURSIVE StringLess(_, _)
\* a < b of two strings of digits: the comparison by character codes
StringLess(a, b) ==
  IF b = <<>> THEN FALSE
  ELSE IF a = <<>> THEN TRUE
  ELSE IF Head(a) # Head(b) THEN DigitOf(Head(a)) < DigitOf(Head(b))
  ELSE StringLess(Tail(a), Tail(b))

\* a < b of two values that are not NaN: two strings are compared as
\* strings, any other two values as numbers
LessThan(a, b) ==
  LET number(value) == CASE value.kind = "string" -> ToNumber(value.tokens, 0)
                         [] value.kind = "number" -> value.n
                         [] OTHER -> 0
  IN IF isString(a) /\ isString(b) THEN StringLess(a.tokens, b.tokens)
     ELSE number(a) < number(b)

RECURSIVE DropWhile(_, _)
DropWhile(tokens, token) ==
  IF tokens # <<>> /\ Head(tokens) = token THEN DropWhile(Tail(tokens), token)
  ELSE tokens

RECURSIVE DropLastWhile(_, _)
DropLastWhile(tokens, token) ==
  IF tokens # <<>> /\ tokens[Len(tokens)] = token
  THEN DropLastWhile(SubSeq(tokens, 1, Len(tokens) - 1), token)
  ELSE tokens

\* value.split(/\s*,s*/): the separator takes the spaces before a comma and
\* the letters s after it
splitRange(tokens) ==
  LET parts == SplitOn(tokens, ",")
  IN [i \in DOMAIN parts |->
        VStr(DropLastWhile(IF i > 1 THEN DropWhile(parts[i], "s") ELSE parts[i],
                           IF i < Len(parts) THEN " " ELSE ","))]

\* the `range` handler once [start, end] is taken from the list
rangeOf(w, b, list) ==
  LET start == IF Len(list) > 0 THEN list[1] ELSE VUndefined
      end   == IF Len(list) > 1 THEN list[2] ELSE VUndefined
  IN IF isNaN(start) \/ isNaN(end) \/ LessThan(end, start)
     THEN Throw(w, QueryError("Invalid range"))
     ELSE Return(AddOperation(w, b, [method |-> "range", args |-> <<start, end>>]),
                 VUndefined)

\* queryHandlers.range(builder, key, value)
range(w, b, value) ==
  IF ~Truthy(value) THEN Return(w, VUndefined)
  ELSE IF isString(value) THEN rangeOf(w, b, splitRange(value.tokens))
  ELSE IF value.kind = "array" THEN rangeOf(w, b, value.items)
  ELSE Throw(w, TypeError)

\* capitalize(propertyName)
capitalize ==
  [firstName |-> "FirstName", lastName |-> "LastName", name |-> "Name",
   text |-> "Text"]

RECURSIVE orderRefs(_, _, _, _)
\* the loop of the `order` handler over the refs, from the i-th on
orderRefs(w, b, refs, i) ==
  IF i > Len(refs) THEN Return(w, VUndefined)
  ELSE LET ref == refs[i]
           dir == VStr(IF ref.dir = <<>> THEN <<"asc">> ELSE ref.dir)
           columnName == fullColumnName(ref)
           alias == <<ref.relation, capitalize[ref.propertyName]>>
       IN IF ref.relation = ""
          THEN orderRefs(orderBy(w, b, <<VStr(columnName), dir>>), b, refs, i + 1)
          ELSE IF ~ModelDefinitions["Person"].relations[ref.relation].oneToOne
          THEN Throw(w, QueryError("Can only order by one-to-one relations"))
          ELSE orderRefs(
                 orderBy(AddOperation(w, b,
                                      [method |-> "select",
                                       args |-> <<VStr(columnName \o <<" as ">> \o alias)>>]),
                         b, <<VStr(alias), dir>>),
                 b, refs, i + 1)

\* the `order` handler once getPropertyRefs() has returned or thrown
orderGot(got, b) ==
  IF got.error # NoError THEN got ELSE orderRefs(got.w, b, got.value, 1)

\* queryHandlers.order(builder, key, value)
order(w, b, value) ==
  IF Truthy(value) THEN orderGot(getPropertyRefs(w, b, value, TRUE, TRUE), b)
  ELSE Return(w, VUndefined)

\* queryHandlers[key](builder, key, value)
queryHandler(w, b, key, value) ==
  CASE key = "where" ->
         processPropertyRefs(w, b, "", value, [defined |-> FALSE, list |-> <<>>])
    [] key = "eager" ->
         IF Truthy(value)
         THEN Return(AddOperation(w, b, [method |-> "mergeEager", args |-> <<value>>]),
                     VUndefined)
         ELSE Return(w, VUndefined)
    [] key = "scope" ->
         Return(mergeScope(w, b, <<value>>), VUndefined)
    [] key = "range" ->
         range(w, b, value)
    [] key = "order" ->
         order(w, b, value)
    [] key \in {"limit", "offset"} ->
         Return(AddOperation(w, b, [method |-> key, args |-> <<value>>]), VUndefined)

\* the `allowed` argument: undefined, or an array of names
NotGiven == [defined |-> FALSE, list |-> <<>>]

Given(list) == [defined |-> TRUE, list |-> list]

\* the allowed array as an object lookup
allowedLookup(allowed) == { allowed.list[i] : i \in DOMAIN allowed.list }

\* the outcome of a step of find(), with the keys dispatched so far
Dispatched(done, keys) == [done EXCEPT !.value = keys]

RECURSIVE findEntries(_, _, _, _, _, _)

\* the loop of find() goes on after the handler of a key, unless the handler
\* has thrown
nextEntry(handled, b, query, i, allowed, dispatched) ==
  IF handled.error # NoError THEN Dispatched(handled, dispatched)
  ELSE findEntries(handled.w, b, query, i, allowed, dispatched)

\* a variant of the loop of find() that lets every key with a query handler
\* pass: C8 fails with it
findEntriesPermitHandlers(w, b, query, i, allowed, dispatched) ==
  IF i > Len(query) THEN Return(w, dispatched)
  ELSE LET key == query[i].key
           value == query[i].value
           inAllowed == allowed.defined /\ key \in allowedLookup(allowed)
       IN IF ~allowed.defined \/ inAllowed \/ key \in queryHandlerKeys
          THEN IF key \in queryHandlerKeys
               THEN nextEntry(queryHandler(w, b, key, value), b, query, i + 1,
                              allowed, Append(dispatched, key))
               ELSE IF ~inAllowed
               THEN Dispatched(Throw(w, QueryError("Invalid query parameter")),
                               dispatched)
               ELSE findEntries(w, b, query, i + 1, allowed, dispatched)
          ELSE Dispatched(Throw(w, QueryError("Query parameter is not allowed")),
                          dispatched)

\* the loop of find() over the entries of the query, from the i-th on; the
\* value returned lists the keys whose handler was called
findEntries(w, b, query, i, allowed, dispatched) ==
  IF i > Len(query) THEN Return(w, dispatched)
  ELSE LET key == query[i].key
           value == query[i].value
           inAllowed == allowed.defined /\ key \in allowedLookup(allowed)
       IN IF ~allowed.defined \/ inAllowed
          THEN IF key \in queryHandlerKeys
               THEN nextEntry(queryHandler(w, b, key, value), b, query, i + 1,
                              allowed, Append(dispatched, key))
               ELSE IF ~inAllowed
               THEN Dispatched(Throw(w, QueryError("Invalid query parameter")),
                               dispatched)
               ELSE findEntries(w, b, query, i + 1, allowed, dispatched)
          ELSE Dispatched(Throw(w, QueryError("Query parameter is not allowed")),
                          dispatched)

RECURSIVE joinAll(_, _, _, _)
\* relation.join(this, { joinOperation: 'leftJoin' }) for the relations to join
joinAll(w, b, toJoin, i) ==
  IF i > Len(toJoin) THEN w
  ELSE joinAll(AddOperation(w, b, [method |-> "leftJoin", args |-> <<VStr(<<toJoin[i]>>)>>]),
               b, toJoin, i + 1)

\* a variant of the end of find() that joins the relations collected so far
\* when the loop has thrown, too: C29 fails with it
joinAlways(looped, b) ==
  [looped EXCEPT
     !.w = joinAll(looped.w, b, looped.w.builders[b]._relationsToJoin, 1)]

\* the end of find(), unless the loop has thrown: the joins
joinFound(looped, b) ==
  IF looped.error # NoError THEN looped
  ELSE [looped EXCEPT
          !.w = joinAll(looped.w, b, looped.w.builders[b]._relationsToJoin, 1)]

\* find(query, allowed)
find(w, b, query, allowed) ==
  joinFound(findEntries([w EXCEPT !.builders[b]._relationsToJoin = <<>>],
                        b, query, 1, allowed, <<>>),
            b)

\* the first() that findOne() adds, unless find() has thrown
first(found, b) ==
  IF found.error # NoError THEN found
  ELSE [found EXCEPT !.w = AddOperation(@, b, [method |-> "first", args |-> <<>>])]

\* findOne(query, allowed)
findOne(w, b, query, allowed) ==
  first(find(w, b, query,
             Given(<<"where", "eager", "scope", "pick", "omit">>
                     \o (IF allowed.defined THEN allowed.list ELSE <<>>))),
        b)

\* ------------------------------------------------------------------------
\* QueryBuilder: the calls made on the builders
\* ------------------------------------------------------------------------

\* Largest number of keys of a query.
MaxKeys == 2

Name(string) == VStr(<<string>>)

\* the reference strings that are resolved
RefInputs ==
  { Name("firstName"), Name("lastName"),
    VStr(<<"firstName", "|", "lastName">>),
    VStr(<<"lastName", " ", "desc">>) }

AllowInputs ==
  { Name("firstName"), Name("lastName"),
    VStr(<<"firstName", "|", "lastName">>), VUndefined }

Entry(key, value) == [key |-> key, value |-> value]

QueryEntries ==
  { Entry("where", VObj(<<Entry("lastName", Name("Doe"))>>)),
    Entry("scope", Name("active")),
    Entry("limit", VNum(1)),
    Entry("foo", VNum(1)) }

RECURSIVE QueriesOf(_)
\* the queries with n entries, no key twice
QueriesOf(n) ==
  IF n = 0 THEN {<<>>}
  ELSE UNION { { Append(q, e) : e \in { e \in QueryEntries :
                                           \A i \in DOMAIN q : q[i].key # e.key } } :
               q \in QueriesOf(n - 1) }

Queries == UNION { QueriesOf(n) : n \in 0..MaxKeys }

AllowedInputs == { NotGiven, Given(<<"where">>), Given(<<"foo", "scope">>) }

World ==
  [builders |-> builders, allowObjs |-> allowObjs, cacheObjs |-> cacheObjs,
   scopeObjs |-> scopeObjs, constructed |-> constructed]

\* the world after a call
Becomes(w) ==
  /\ builders' = w.builders
  /\ allowObjs' = w.allowObjs
  /\ cacheObjs' = w.cacheObjs
  /\ scopeObjs' = w.scopeObjs
  /\ constructed' = w.constructed

\* no graph is processed while a query is built
GPIdle ==
  /\ definitions = <<>> /\ settings = <<>> /\ data = Arr(<<>>)
  /\ isArrayData = FALSE /\ options = <<>> /\ overrides = <<>>
  /\ numOptions = 0 /\ numOverrides = 0
  /\ removedRelations = [truthy |-> FALSE, map |-> <<>>]
  /\ returnedData = NotReturned /\ returnedOptions = NotReturned
  /\ result = NotReturned /\ repeated = FALSE

QBInit ==
  /\ builders = (1 :> NewBuilder(1))
  /\ allowObjs = [a \in Addresses |-> {}]
  /\ cacheObjs = [a \in Addresses |-> <<>>]
  /\ scopeObjs = [a \in Addresses |-> <<>>]
  /\ constructed = 0
  /\ outcome = NoCall
  /\ GPIdle

\* a call has returned or thrown: the builders afterwards, and the record of
\* the call with the error thrown and the value returned
Called(call, done) ==
  /\ Becomes(done.w)
  /\ outcome' = call @@ [error |-> done.error, value |-> done.value]
  /\ UNCHANGED gpVars

Allow(b, refs) ==
  Called([call |-> "allow", builder |-> b, refs |-> refs], allow(World, b, refs))

GetPropertyRefs(b, refs, parseDir, checkAllow) ==
  Called([call |-> "getPropertyRefs", builder |-> b, refs |-> refs,
          parseDir |-> parseDir, checkAllow |-> checkAllow],
         getPropertyRefs(World, b, refs, parseDir, checkAllow))

\* find() is called on a builder that holds no operations yet; the value
\* recorded lists the keys whose handler was called
Find(b, query, allowed) ==
  /\ builders[b].operations = <<>>
  /\ Called([call |-> "find", builder |-> b, query |-> query, allowed |-> allowed],
            find(World, b, query, allowed))

FindOne(b, query, allowed) ==
  /\ builders[b].operations = <<>>
  /\ Called([call |-> "findOne", builder |-> b, query |-> query,
             allowed |-> Given(<<"where", "eager", "scope", "pick", "omit">>
                                 \o allowed.list)],
            findOne(World, b, query, allowed))

QBNext ==
  \/ \E b \in DOMAIN builders, refs \in AllowInputs : Allow(b, refs)
  \/ \E b \in DOMAIN builders, refs \in RefInputs,
        parseDir \in BOOLEAN, checkAllow \in BOOLEAN :
       GetPropertyRefs(b, refs, parseDir, checkAllow)
  \/ \E b \in DOMAIN builders, query \in Queries, allowed \in AllowedInputs :
       Find(b, query, allowed)
  \/ \E b \in DOMAIN builders, query \in Queries, allowed \in AllowedInputs :
       FindOne(b, query, allowed)

QBSpec == QBInit /\ [][QBNext]_vars

\* ------------------------------------------------------------------------
\* QueryBuilder: a builder and its clone
\* ------------------------------------------------------------------------

ScopeNames == { Name("active"), Name("recent") }

Clone(b) ==
  /\ DOMAIN builders # BuilderIds
  /\ Called([call |-> "clone", builder |-> b], clone(World, b))

MergeScope(b, scopes) ==
  Called([call |-> "mergeScope", builder |-> b, scopes |-> scopes],
         Return(mergeScope(World, b, scopes), VUndefined))

CloneNext ==
  \/ \E b \in DOMAIN builders : Clone(b)
  \/ \E b \in DOMAIN builders, name \in ScopeNames : MergeScope(b, <<name>>)
  \/ \E b \in DOMAIN builders, refs \in AllowInputs : Allow(b, refs)
  \/ \E b \in DOMAIN builders, refs \in RefInputs, checkAllow \in BOOLEAN :
       GetPropertyRefs(b, refs, FALSE, checkAllow)

CloneSpec == QBInit /\ [][CloneNext]_vars

\* ------------------------------------------------------------------------
\* QueryBuilder: find() with a range
\* ------------------------------------------------------------------------

\* Largest start and end of a range.
MaxRange == 11

RECURSIVE DecimalString(_)
\* `${n}`: the decimal digits of a number that is not negative
DecimalString(n) ==
  IF n < 10 THEN <<Digits[n + 1]>>
  ELSE DecimalString(n \div 10) \o <<Digits[(n % 10) + 1]>>

\* the string 'start,end'
RangeString(start, end) ==
  VStr(DecimalString(start) \o <<",">> \o DecimalString(end))

\* the range parameter of getQueryParams(), for a list that is paginated
getQueryParams(page, limit) ==
  LET offset == page * limit
  IN RangeString(offset, offset + limit - 1)

\* find({ range: value })
FindRange(b, value) == Find(b, <<Entry("range", value)>>, NotGiven)

RangeNext ==
  \/ \E b \in DOMAIN builders, start \in 0..MaxRange, end \in 0..MaxRange :
       FindRange(b, RangeString(start, end))
  \/ \E b \in DOMAIN builders, page \in 0..MaxRange, limit \in 1..(MaxRange + 1) :
       /\ page * limit + limit - 1 <= MaxRange
       /\ FindRange(b, getQueryParams(page, limit))
  \/ \E b \in DOMAIN builders, start \in 0..MaxRange, end \in 0..MaxRange :
       FindRange(b, VList(<<VNum(start), VNum(end)>>))

RangeSpec == QBInit /\ [][RangeNext]_vars

\* ------------------------------------------------------------------------
\* QueryBuilder: find() with a where filter
\* ------------------------------------------------------------------------

\* Largest number of values of a filter.
MaxValues == 3

\* the operator suffixes of filter keys: those of the query grammar, and two
\* that are not of it
GrammarSuffixes ==
  {"eq", "ne", "not", "lt", "lte", "gt", "gte", "like", "notLike", "iLike",
   "notILike", "in", "notIn", "between", "notBetween", "null", "notNull",
   "empty", "notEmpty"}

Suffixes == GrammarSuffixes \cup {"noteLike", "foo"}

FilterProperties == {"firstName", "lastName"}

RECURSIVE ValueLists(_)
\* the lists of n values
ValueLists(n) ==
  IF n = 0 THEN {<<>>}
  ELSE { Append(values, value) : values \in ValueLists(n - 1), value \in {"1", "2"} }

FilterValues == UNION { ValueLists(n) : n \in 1..MaxValues }

\* the values as one string, joined by commas
RawValue(values) == VStr(Join(values, ","))

\* the values as an array of strings
ArrayValue(values) == VList([i \in DOMAIN values |-> Name(values[i])])

\* the query { where: value }
WhereOf(value) == <<Entry("where", value)>>

\* the string 'property:suffix=values'
StringFilter(property, suffix, values) ==
  VStr(<<property, ":", suffix, "=">> \o Join(values, ","))

\* the object { [property]: { [suffix]: value } }
ObjectFilter(property, suffix, value) ==
  VObj(<<Entry(property, VObj(<<Entry(suffix, value)>>))>>)

\* the string 'property=values'
PlainString(property, values) == VStr(<<property, "=">> \o Join(values, ","))

\* the values of a filter without a suffix
PlainValues == { VNull, Name("Doe"), VStr(<<>>), VNum(1) }

\* objects of several levels; pet is a one-to-one relation of Person
NestedFilters ==
  { VObj(<<Entry("firstName", VObj(<<Entry("like", Name("Jo%"))>>)),
           Entry("lastName", Name("%oe")),
           Entry("pet", VObj(<<Entry("name", VObj(<<Entry("like", Name("R%"))>>))>>))>>),
    VObj(<<Entry("pet", VObj(<<Entry("name", Name("Rex"))>>)),
           Entry("lastName", VObj(<<Entry("null", VNum(1)),
                                    Entry("notLike", Name("%oe"))>>))>>),
    VObj(<<Entry("pet", VObj(<<Entry("name", VObj(<<Entry("ne", Name("Rex")),
                                                    Entry("like", Name("R%"))>>))>>)),
           Entry("firstName", VNull)>>),
    VObj(<<Entry("firstName", VObj(<<Entry("notLike", Name("Jo%"))>>))>>) }

\* find({ where }) is the first call on the new builder
FindWhere(b, value) ==
  /\ outcome = NoCall
  /\ Find(b, WhereOf(value), NotGiven)

FilterNext ==
  \/ \E b \in DOMAIN builders, property \in FilterProperties,
        suffix \in Suffixes, values \in FilterValues :
       FindWhere(b, StringFilter(property, suffix, values))
  \/ \E b \in DOMAIN builders, property \in FilterProperties,
        suffix \in Suffixes, values \in FilterValues :
       FindWhere(b, ObjectFilter(property, suffix, RawValue(values)))
  \/ \E b \in DOMAIN builders, property \in FilterProperties,
        suffix \in Suffixes, values \in FilterValues :
       FindWhere(b, ObjectFilter(property, suffix, ArrayValue(values)))
  \/ \E b \in DOMAIN builders, property \in FilterProperties, value \in PlainValues :
       FindWhere(b, VObj(<<Entry(property, value)>>))
  \/ \E b \in DOMAIN builders, property \in FilterProperties, values \in FilterValues :
       FindWhere(b, PlainString(property, values))
  \/ \E b \in DOMAIN builders, value \in NestedFilters :
       FindWhere(b, value)

FilterSpec == QBInit /\ [][FilterNext]_vars

\* ------------------------------------------------------------------------
\* QueryBuilder: the scopes of a builder
\* ------------------------------------------------------------------------

\* Largest number of entries of the scope list.
MaxScopes == 3

\* the arguments of scope() and mergeScope(): one name or two
ScopeLists ==
  { <<name>> : name \in ScopeNames }
    \cup { <<one, other>> : one \in ScopeNames, other \in ScopeNames }

\* the scope parameter of a query: one name, or an array of names
ScopeParameters ==
  ScopeNames \cup { VList(scopes) : scopes \in { l \in ScopeLists : Len(l) > 1 } }

\* the scope list of a builder
ScopesOf(b) == scopeObjs[builders[b]._scopes]

Scope(b, scopes) ==
  Called([call |-> "scope", builder |-> b, scopes |-> scopes],
         Return(scope(World, b, scopes), VUndefined))

ClearScope(b) ==
  Called([call |-> "clearScope", builder |-> b],
         Return(clearScope(World, b), VUndefined))

ScopeNext ==
  \/ \E b \in DOMAIN builders, scopes \in ScopeLists : Scope(b, scopes)
  \/ \E b \in DOMAIN builders, scopes \in ScopeLists :
       /\ Len(ScopesOf(b)) < MaxScopes
       /\ MergeScope(b, scopes)
  \/ \E b \in DOMAIN builders : ClearScope(b)
  \/ \E b \in DOMAIN builders, value \in ScopeParameters :
       /\ Len(ScopesOf(b)) < MaxScopes
       /\ Find(b, <<Entry("scope", value)>>, NotGiven)

ScopeSpec == QBInit /\ [][ScopeNext]_vars

\* ------------------------------------------------------------------------
\* QueryBuilder: execute()
\* ------------------------------------------------------------------------

\* Largest number of operations of a builder before it is executed.
MaxOperations == 2

\* the defaults of a model class: none, or an eager expression and an order
ModelClassDefaults ==
  [defaultEager : {VUndefined, Name("messages")},
   defaultOrder : {VUndefined, Name("lastName")}]

\* the eager and order parameters of a query
ExecuteQueries ==
  { <<Entry("eager", Name("pet"))>>,
    <<Entry("order", Name("firstName"))>>,
    <<Entry("order", VStr(<<"pet", ".", "name", " ", "desc">>))>>,
    <<Entry("scope", Name("active")), Entry("order", VStr(<<"messages", ".", "text">>))>> }

\* a call of a setter, or of a method of objection that adds an operation
Set(b, method, w) ==
  /\ Len(builders[b].operations) < MaxOperations
  /\ Called([call |-> method, builder |-> b], Return(w, VUndefined))

Execute(b, modelClass) ==
  Called([call |-> "execute", builder |-> b, modelClass |-> modelClass],
         execute(World, b, modelClass))

ExecuteNext ==
  \/ \E b \in DOMAIN builders : Set(b, "eager", eager(World, b, <<Name("pet")>>))
  \/ \E b \in DOMAIN builders : Set(b, "clearEager", clearEager(World, b))
  \/ \E b \in DOMAIN builders :
       Set(b, "orderBy", orderBy(World, b, <<Name("firstName")>>))
  \/ \E b \in DOMAIN builders : Set(b, "clearOrder", clearOrder(World, b))
  \/ \E b \in DOMAIN builders, method \in {"select", "patch"} :
       Set(b, method, AddOperation(World, b, [method |-> method, args |-> <<>>]))
  \/ \E b \in DOMAIN builders, name \in ScopeNames :
       /\ Len(ScopesOf(b)) < MaxOperations
       /\ MergeScope(b, <<name>>)
  \/ \E b \in DOMAIN builders, query \in ExecuteQueries : Find(b, query, NotGiven)
  \/ \E b \in DOMAIN builders, modelClass \in ModelClassDefaults :
       /\ Len(builders[b].operations) <= MaxOperations
       /\ Execute(b, modelClass)

ExecuteSpec == QBInit /\ [][ExecuteNext]_vars

\* ------------------------------------------------------------------------
\* QueryBuilder: the where methods and the conversion of identifiers
\* ------------------------------------------------------------------------

WhereMethods ==
  {"where", "whereNot", "whereIn", "whereNotIn", "whereNull", "whereNotNull",
   "whereBetween", "whereNotBetween"}

\* convertIdentifier with every identifier taken for a property
convertEveryIdentifier(identifier) == <<"Person", ".">> \o identifier

\* convertIdentifier(identifier), for the model class Person
convertIdentifier(identifier) ==
  IF Len(identifier) = 1 /\ identifier[1] \in ModelDefinitions["Person"].properties
  THEN <<"Person", ".">> \o identifier
  ELSE identifier

RECURSIVE convertKeys(_, _, _)
\* converted[convertIdentifier(key)] = arg[key], for the keys of arg from the
\* i-th on: a key that the object holds already keeps its place and takes
\* the new value
convertKeys(entries, i, converted) ==
  IF i > Len(entries) THEN converted
  ELSE LET key == convertIdentifier(entries[i].key)
           entry == Entry(key, entries[i].value)
       IN convertKeys(
            entries, i + 1,
            IF \E j \in DOMAIN converted : converted[j].key = key
            THEN [j \in DOMAIN converted |->
                    IF converted[j].key = key THEN entry ELSE converted[j]]
            ELSE Append(converted, entry))

\* QueryBuilder.prototype[key](arg, ...args), for the keys of WhereMethods
whereMethod(w, b, key, arg, args) ==
  AddOperation(
    w, b,
    [method |-> key,
     args |-> <<IF isString(arg) THEN VStr(convertIdentifier(arg.tokens))
                ELSE IF isObject(arg) THEN VObj(convertKeys(arg.entries, 1, <<>>))
                ELSE arg>> \o args])

\* identifiers: properties of the model class, a qualified property, a name
\* that is no property, and a property of a relation
Identifiers ==
  { <<"firstName">>, <<"lastName">>, <<"Person", ".", "firstName">>, <<"age">>,
    <<"pet", ".", "name">> }

RECURSIVE ObjectsOf(_)
\* the objects with n keys, no key twice, whose keys are identifiers
ObjectsOf(n) ==
  IF n = 0 THEN {<<>>}
  ELSE UNION { { Append(entries, Entry(key, VNum(value))) :
                   key \in { k \in Identifiers :
                               \A i \in DOMAIN entries : entries[i].key # k },
                   value \in 1..2 } :
               entries \in ObjectsOf(n - 1) }

\* the first argument of a where method: a string, an object, or another value
FirstArguments ==
  { VStr(identifier) : identifier \in Identifiers }
    \cup { VObj(entries) : entries \in UNION { ObjectsOf(n) : n \in 1..MaxKeys } }
    \cup { VList(<<Name("firstName")>>), VNum(1) }

\* the other arguments of a where method
OtherArguments == { <<>>, <<Name("firstName")>>, <<Name("="), VNum(1)>> }

\* a where method is the first call on the new builder
Where(b, key, arg, args) ==
  /\ outcome = NoCall
  /\ Called([call |-> key, builder |-> b, arg |-> arg, args |-> args],
            Return(whereMethod(World, b, key, arg, args), VUndefined))

WhereNext ==
  \E b \in DOMAIN builders, key \in WhereMethods,
     arg \in FirstArguments, args \in OtherArguments :
    Where(b, key, arg, args)

WhereSpec == QBInit /\ [][WhereNext]_vars

\* ------------------------------------------------------------------------
\* QueryBuilder: upsert
\* ------------------------------------------------------------------------

\* builder.context().isMainQuery
isMainQuery(this) == "isMainQuery" \in DOMAIN this /\ this.isMainQuery

\* builder.context(obj): the context of this builder alone
context(w, b, obj) == [w EXCEPT !.builders[b] = obj @@ @]

\* upsert(data, opt): the two hooks are kept among the operations
upsert(w, b, json, opt) ==
  AddOperation(AddOperation(w, b, [method |-> "runBefore", args |-> <<json, opt>>]),
               b, [method |-> "runAfter", args |-> <<json, opt>>])

\* upsertAndFetch(data, opt)
upsertAndFetch(w, b, json, opt) == upsert(w, b, json, [opt EXCEPT !.fetch = TRUE])

\* the hook given to runBefore(): mainQuery is the clone, marked; the builder
\* becomes an update or a patch
upsertBefore(w, b, mainQuery, json, opt) ==
  IF ~isMainQuery(w.builders[b])
  THEN AddOperation(
         context(clone(w, b).w, mainQuery, [isMainQuery |-> TRUE]),
         b, [method |-> IF opt.update THEN "update" ELSE "patch", args |-> <<json>>])
  ELSE w

\* what the database returns for the query of a builder: the number of rows
\* affected by an update or a patch, the rows of any other query
Rows(w, b, affected) ==
  IF w.builders[b].operations[Len(w.builders[b].operations)].method
       \in {"update", "patch"}
  THEN VNum(affected)
  ELSE VList(<<VNum(b)>>)

\* a variant of the hook given to runAfter() that inserts whatever the
\* result of the update is: C30 fails with it
upsertAfterInserting(w, b, mainQuery, json, opt, res) ==
  IF ~isMainQuery(w.builders[b])
  THEN Return(
         AddOperation(w, mainQuery,
                      [method |-> IF opt.fetch THEN "insertAndFetch" ELSE "insert",
                       args |-> <<json>>]),
         VNum(mainQuery))
  ELSE Return(w, res)

\* the hook given to runAfter(): the value is the result, or the mainQuery
\* that is run next, with the insert or with first()
upsertAfter(w, b, mainQuery, json, opt, res) ==
  IF ~isMainQuery(w.builders[b])
  THEN Return(
         AddOperation(w, mainQuery,
                      IF res = VNum(0)
                      THEN [method |-> IF opt.fetch THEN "insertAndFetch" ELSE "insert",
                            args |-> <<json>>]
                      ELSE [method |-> "first", args |-> <<>>]),
         VNum(mainQuery))
  ELSE Return(w, res)

\* the data and the options that the hooks of the builder hold
Hooked(this) ==
  this.operations[CHOOSE i \in DOMAIN this.operations :
                    this.operations[i].method = "runBefore"].args

RECURSIVE executeHooks(_, _, _, _)
\* the builder is run: the hook of runBefore(), the query, the hook of
\* runAfter(); a builder that the hook returns is run in turn
executeQuery(before, b, mainQuery, affected) ==
  LET after == upsertAfter(before, b, mainQuery, Hooked(before.builders[b])[1],
                           Hooked(before.builders[b])[2], Rows(before, b, affected))
  IN IF isMainQuery(before.builders[b]) THEN after
     ELSE executeHooks(after.w, mainQuery, mainQuery, affected)

executeHooks(w, b, mainQuery, affected) ==
  executeQuery(upsertBefore(w, b, mainQuery, Hooked(w.builders[b])[1],
                            Hooked(w.builders[b])[2]),
               b, mainQuery, affected)

\* the data of an upsert and its options
UpsertData == { VObj(<<Entry(<<"firstName">>, Name(name))>>) : name \in {"Jo", "Al"} }

UpsertOptions == [update : BOOLEAN, fetch : BOOLEAN]

\* upsert() and upsertAndFetch() on a query that a where method has started
Upsert(b, method, json, opt) ==
  /\ outcome.call \in WhereMethods
  /\ outcome.builder = b
  /\ Called([call |-> method, builder |-> b, data |-> json, opt |-> opt],
            Return(IF method = "upsert" THEN upsert(World, b, json, opt)
                   ELSE upsertAndFetch(World, b, json, opt),
                   VUndefined))

\* the query is run; the update affects some number of rows
ExecuteUpsert(b, affected) ==
  /\ outcome.call \in {"upsert", "upsertAndFetch"}
  /\ outcome.builder = b
  /\ DOMAIN builders # BuilderIds
  /\ Called([call |-> "execute", builder |-> b, affected |-> affected,
             data |-> outcome.data, opt |-> outcome.opt,
             fetch |-> (outcome.opt.fetch \/ outcome.call = "upsertAndFetch"),
             mainQuery |-> CHOOSE c \in BuilderIds : c \notin DOMAIN builders],
            executeHooks(World, b, CHOOSE c \in BuilderIds : c \notin DOMAIN builders,
                         affected))

UpsertNext ==
  \/ \E b \in DOMAIN builders, key \in {"where", "whereIn"},
        identifier \in Identifiers, args \in OtherArguments :
       Where(b, key, VStr(identifier), args)
  \/ \E b \in DOMAIN builders, method \in {"upsert", "upsertAndFetch"},
        json \in UpsertData, opt \in UpsertOptions :
       Upsert(b, method, json, opt)
  \/ \E b \in DOMAIN builders, affected \in 0..2 : ExecuteUpsert(b, affected)

UpsertSpec == QBInit /\ [][UpsertNext]_vars

\* ------------------------------------------------------------------------
\* QueryBuilder: find() called again on one builder
\* ------------------------------------------------------------------------

\* entries of which some change the builder, some cross the one-to-one
\* relation pet, and some fail: the second where fails after pet has been
\* collected, order by a relation that is not one-to-one and foo always
FindEntries ==
  { Entry("where", VObj(<<Entry("pet", VObj(<<Entry("name", Name("Rex"))>>))>>)),
    Entry("where", VObj(<<Entry("pet", VObj(<<Entry("name", Name("Rex"))>>)),
                          Entry("lastName", VObj(<<Entry("foo", Name("Doe"))>>))>>)),
    Entry("scope", Name("active")),
    Entry("limit", VNum(1)),
    Entry("order", VStr(<<"messages", ".", "text">>)),
    Entry("foo", VNum(1)) }

RECURSIVE FindQueriesOf(_)
\* the queries with n of these entries, no key twice
FindQueriesOf(n) ==
  IF n = 0 THEN {<<>>}
  ELSE UNION { { Append(q, e) : e \in { e \in FindEntries :
                                           \A i \in DOMAIN q : q[i].key # e.key } } :
               q \in FindQueriesOf(n - 1) }

\* find() on a builder that may have served a find() before
FindAgain(b, query, allowed) ==
  /\ Len(builders[b].operations) < MaxOperations
  /\ Called([call |-> "find", builder |-> b, query |-> query, allowed |-> allowed],
            find(World, b, query, allowed))

FindNext ==
  \E b \in DOMAIN builders, query \in UNION { FindQueriesOf(n) : n \in 1..MaxKeys },
     allowed \in {NotGiven, Given(<<"where", "limit", "order">>)} :
    FindAgain(b, query, allowed)

FindSpec == QBInit /\ [][FindNext]_vars

\* ------------------------------------------------------------------------
\* Properties of the QueryBuilder
\* ------------------------------------------------------------------------

\* the keys of the query entries before the i-th
KeysBefore(query, i) == [j \in 1..(i - 1) |-> query[j].key]

Range(list) == { list[i] : i \in DOMAIN list }

\* some key of the query is not in the allowed array
HasAbsent(query, allowed) ==
  \E i \in DOMAIN query : query[i].key \notin allowedLookup(allowed)

\* the first entry of the query whose key is not in the allowed array
FirstAbsent(query, allowed) ==
  CHOOSE i \in DOMAIN query :
    /\ query[i].key \notin allowedLookup(allowed)
    /\ \A j \in 1..(i - 1) : query[j].key \in allowedLookup(allowed)

NotAllowedParameter == QueryError("Query parameter is not allowed")

\* find() or findOne() was the last call, with an allowed array
FoundWithAllowed(o) == o.call \in {"find", "findOne"} /\ o.allowed.defined

AllowList(b) == allowObjs[builders[b]._allow]

\* the query { where: { [p]: 'Doe' } }
WhereQuery(p) == <<Entry("where", VObj(<<Entry(p, Name("Doe"))>>))>>

\* C9: on a builder whose allow-list is present, find({ where: { p: 'Doe' } })
\* throws the "not allowed" QueryError when p is not in the allow-list, and
\* is accepted when p is in it.
C9_AllowListDecides ==
  \A p \in {"firstName", "lastName"} :
    (/\ outcome.call = "find"
     /\ ~outcome.allowed.defined
     /\ outcome.query = WhereQuery(p)
     /\ builders[outcome.builder]._allow # Null)
    => IF <<p>> \in AllowList(outcome.builder)
       THEN outcome.error = NoError
       ELSE outcome.error = QueryError("NotAllowed")

\* the reference strings that a call of getPropertyRefs(refs) resolves
RefsOf(refs) == IF isString(refs) THEN SplitOn(refs.tokens, "|") ELSE refs.items

Observed(b) ==
  [scopes |-> scopeObjs[builders[b]._scopes],
   allow  |-> IF builders[b]._allow = Null
              THEN [present |-> FALSE, keys |-> {}]
              ELSE [present |-> TRUE, keys |-> AllowList(b)],
   cache  |-> cacheObjs[builders[b]._propertyRefsCache]]

\* C11: builders share no mutable state, a builder and its clone included: a
\* mergeScope(), allow() or getPropertyRefs() on one builder leaves the scope
\* list, the allow-list and the PropertyRef cache observed through every other
\* builder as they were.
C11_NoSharedState ==
  [][outcome'.call \in {"mergeScope", "allow", "getPropertyRefs"}
     => \A c \in DOMAIN builders \ {outcome'.builder} :
          Observed(c)' = Observed(c)]_vars

\* the key of the PropertyRef that a reference string stands for
RefKey(ref, parseDir) == IF parseDir THEN SplitOn(ref, " ")[1] ELSE ref

\* C12: on a builder whose allow-list is present, getPropertyRefs(refs,
\* { checkAllow: true }) rejects a reference that is not in the allow-list,
\* also when the reference string was resolved on the builder before the
\* allow-list was set or extended.
C12_AbsentRefRejected ==
  (/\ outcome.call = "getPropertyRefs"
   /\ outcome.checkAllow
   /\ builders[outcome.builder]._allow # Null
   /\ \E i \in DOMAIN RefsOf(outcome.refs) :
        RefKey(RefsOf(outcome.refs)[i], outcome.parseDir)
          \notin AllowList(outcome.builder))
  => outcome.error # NoError

\* the query { range: value }
RangeQuery(value) == <<Entry("range", value)>>

\* C13: for all start and end that are not negative, given as the string
\* 'start,end', the range handler accepts exactly when end >= start as
\* numbers, and then paginates with range(start, end); when end < start it
\* throws the "invalid range" QueryError and applies no pagination.
C13_RangeAccepted ==
  \A start \in 0..MaxRange, end \in 0..MaxRange :
    (outcome.call = "find" /\ outcome.query = RangeQuery(RangeString(start, end)))
    => IF end >= start
       THEN /\ outcome.error = NoError
            /\ builders[outcome.builder].operations =
                 <<[method |-> "range",
                    args |-> <<VStr(DecimalString(start)), VStr(DecimalString(end))>>]>>
       ELSE /\ outcome.error = QueryError("Invalid range")
            /\ builders[outcome.builder].operations = <<>>

\* the predicate methods of the filters over a list of values
ListMethods ==
  [in |-> "whereIn", notIn |-> "whereNotIn",
   between |-> "whereBetween", notBetween |-> "whereNotBetween"]

\* the only operation of a builder: the predicate over the list of values
\* on the qualified column
ListPredicate(property, suffix, values) ==
  <<[method |-> ListMethods[suffix],
     args |-> <<VStr(<<"Person", ".", property>>), ArrayValue(values)>>,
     boolOp |-> ""]>>

\* C14: for each of between, notBetween, in and notIn, given the raw string
\* of N values joined by commas, the filter registered under the name gives
\* the predicate (whereBetween, whereNotBetween, whereIn, whereNotIn on the
\* qualified column) whose value argument is the list of the N split values.
C14_SplitValues ==
  \A property \in FilterProperties, suffix \in DOMAIN ListMethods,
     values \in FilterValues :
    (/\ outcome.call = "find"
     /\ outcome.query = WhereOf(StringFilter(property, suffix, values)))
    => /\ outcome.error = NoError
       /\ builders[outcome.builder].operations
            = ListPredicate(property, suffix, values)

\* the values of a between filter are malformed: they are not two, or the
\* end of the range is less than its start
Malformed(values) ==
  \/ Len(values) # 2
  \/ Len(values) = 2 /\ DigitOf(values[2]) < DigitOf(values[1])

\* C15: a between or notBetween filter whose raw value is malformed throws
\* the "invalid range" QueryError while the query is built, and gives no
\* predicate.
C15_MalformedRejected ==
  \A property \in FilterProperties, suffix \in {"between", "notBetween"},
     values \in FilterValues :
    (/\ outcome.call = "find"
     /\ outcome.query = WhereOf(StringFilter(property, suffix, values))
     /\ Malformed(values))
    => /\ outcome.error = QueryError("Invalid range")
       /\ builders[outcome.builder].operations = <<>>

\* the builder holds one predicate, and its value argument is the list
OverList(operations, values) ==
  /\ Len(operations) = 1
  /\ operations[1].args[Len(operations[1].args)] = ArrayValue(values)

\* C16: the in, notIn, between and notBetween filters of object notation
\* take a raw value that is a comma-delimited string or an array of values,
\* and give in both cases a predicate over the list of values, not an error.
C16_StringOrArray ==
  \A property \in FilterProperties, suffix \in DOMAIN ListMethods,
     values \in FilterValues :
    (/\ outcome.call = "find"
     /\ outcome.query \in
          { WhereOf(ObjectFilter(property, suffix, RawValue(values))),
            WhereOf(ObjectFilter(property, suffix, ArrayValue(values))) })
    => /\ outcome.error = NoError
       /\ OverList(builders[outcome.builder].operations, values)

\* C17: every operator suffix of the query grammar resolves to a registered
\* filter in parseQueryFilter(), and every other suffix fails with the
\* "invalid filter" QueryError before a property reference is resolved or a
\* predicate is applied.
C17_GrammarSuffixes ==
  \A property \in FilterProperties, suffix \in Suffixes, values \in FilterValues :
    (/\ outcome.call = "find"
     /\ outcome.query = WhereOf(StringFilter(property, suffix, values)))
    => IF suffix \in GrammarSuffixes
       THEN outcome.error # QueryError("Invalid filter")
       ELSE /\ outcome.error = QueryError("Invalid filter")
            /\ constructed = 0
            /\ cacheObjs[builders[outcome.builder]._propertyRefsCache] = <<>>
            /\ builders[outcome.builder].operations = <<>>

\* the only operation of a builder: the comparison of the column with a value
EqualsPredicate(property, value) ==
  <<[method |-> "where",
     args |-> <<VStr(<<"Person", ".", property>>), Name("="), value>>,
     boolOp |-> ""]>>

\* the only operation of a builder: the null-check of the column
NullPredicate(property) ==
  <<[method |-> "whereNull",
     args |-> <<VStr(<<"Person", ".", property>>)>>,
     boolOp |-> ""]>>

\* C18: a filter key without an operator suffix applies the equality filter,
\* except that a null value gives the null-check predicate (whereNull on the
\* column, without a value argument) and not a comparison with null; the
\* null operator gives the null-check whatever value is supplied.
C18_NullCheck ==
  \A property \in FilterProperties :
    outcome.call = "find"
    => /\ \A value \in PlainValues :
            outcome.query = WhereOf(VObj(<<Entry(property, value)>>))
            => /\ outcome.error = NoError
               /\ builders[outcome.builder].operations =
                    IF value = VNull THEN NullPredicate(property)
                    ELSE EqualsPredicate(property, value)
       /\ \A values \in FilterValues :
            /\ outcome.query = WhereOf(PlainString(property, values))
               => /\ outcome.error = NoError
                  /\ builders[outcome.builder].operations =
                       EqualsPredicate(property, RawValue(values))
            /\ outcome.query \in
                 { WhereOf(StringFilter(property, "null", values)),
                   WhereOf(ObjectFilter(property, "null", RawValue(values))),
                   WhereOf(ObjectFilter(property, "null", ArrayValue(values))) }
               => /\ outcome.error = NoError
                  /\ builders[outcome.builder].operations = NullPredicate(property)

\* find({ where: { lastName: null } }) has given the null-check of the column
C18_Witness ==
  /\ outcome.call = "find"
  /\ outcome.query = WhereOf(VObj(<<Entry("lastName", VNull)>>))
  /\ outcome.error = NoError
  /\ builders[outcome.builder].operations = NullPredicate("lastName")

RECURSIVE Flattened(_, _, _)
\* the filter instructions of the entries of an object from the i-th on,
\* below the keys of the path: an entry that holds an object gives the
\* instructions of that object below its key; any other entry is a leaf, and
\* gives one instruction, whose reference is the path joined by dots, ended
\* by the ':operator' suffix when the leaf key is an operator of the grammar
\* and by the leaf key as the last segment otherwise
Flattened(entries, i, path) ==
  IF i > Len(entries) THEN <<>>
  ELSE LET key == entries[i].key
           value == entries[i].value
       IN (IF isObject(value) THEN Flattened(value.entries, 1, Append(path, key))
           ELSE IF key \in GrammarSuffixes
           THEN <<Entry(Join(path, ".") \o <<":", key>>, value)>>
           ELSE <<Entry(Join(Append(path, key), "."), value)>>)
          \o Flattened(entries, i + 1, path)

RECURSIVE Instructed(_, _, _, _)

\* the instructions go on after one of them, unless it has thrown
NextInstructed(done, b, instructions, i) ==
  IF done.error # NoError THEN done
  ELSE Instructed(done.w, b, instructions, i)

\* parseQueryFilter() of the instructions from the i-th on, one after the other
Instructed(w, b, instructions, i) ==
  IF i > Len(instructions) THEN Return(w, VUndefined)
  ELSE NextInstructed(
         parseQueryFilter(w, b, instructions[i].key, instructions[i].value),
         b, instructions, i + 1)

\* the where filters given in object notation
ObjectFilters ==
  NestedFilters
    \cup { ObjectFilter(property, suffix, RawValue(values)) :
             property \in FilterProperties, suffix \in Suffixes, values \in FilterValues }
    \cup { VObj(<<Entry(property, value)>>) :
             property \in FilterProperties, value \in PlainValues }

\* C19: the where handler flattens object notation into one filter
\* instruction per leaf: the keys on the path from the root are the reference
\* joined by dots, and a leaf key that names a filter operator ends the path
\* and is the ':operator' suffix; find() does what parseQueryFilter() of
\* these instructions, one after the other, does.
C19_Flattened ==
  [][(outcome'.call = "find" /\ outcome'.query[1].value \in ObjectFilters)
     => LET b == outcome'.builder
            expected == joinFound(
                          Instructed(World, b,
                                     Flattened(outcome'.query[1].value.entries, 1, <<>>),
                                     1),
                          b)
        IN /\ outcome'.error = expected.error
           /\ builders' = expected.w.builders
           /\ cacheObjs' = expected.w.cacheObjs]_vars

\* C20: after any sequence of scope(), mergeScope(), clearScope() and find()
\* calls with a scope parameter of one name or of several names, the scope
\* list of the builder holds scope names, each of them at most once, in the
\* order in which they were first given since the last clear.
C20_ScopesOnce ==
  \A b \in DOMAIN builders :
    /\ \A i \in DOMAIN ScopesOf(b) : ScopesOf(b)[i] \in ScopeNames
    /\ \A i \in DOMAIN ScopesOf(b), j \in DOMAIN ScopesOf(b) :
         ScopesOf(b)[i] = ScopesOf(b)[j] => i = j

\* the operations that apply the scopes of a list, one for each, in order
ScopeFilters(scopes) ==
  [i \in DOMAIN scopes |-> [method |-> "applyFilter", args |-> <<scopes[i]>>]]

\* C21: execute() applies the accumulated scopes last: what it adds to the
\* operations that the builder holds are the default eager expression and
\* the default order, if any, and then one filter for each scope of the scope
\* list, in list order; the query that is run has all of them.
C21_ScopesLast ==
  [][outcome'.call = "execute"
     => LET b == outcome'.builder
            old == builders[b].operations
            new == builders'[b].operations
            scopes == ScopesOf(b)
            last == Len(new) - Len(scopes)
        IN /\ last >= Len(old)
           /\ SubSeq(new, 1, Len(old)) = old
           /\ \A i \in (Len(old) + 1)..last :
                new[i].method \in {"mergeEager", "orderBy"}
           /\ SubSeq(new, last + 1, Len(new)) = ScopeFilters(scopes)
           /\ outcome'.value = new]_vars

\* execute() has applied the default order and then two scopes, on a builder
\* that held an operation before
C21_Witness ==
  /\ outcome.call = "execute"
  /\ Len(ScopesOf(outcome.builder)) = 2
  /\ Len(outcome.value) = 4
  /\ outcome.value[1].method = "eager"
  /\ outcome.value[2].method = "orderBy"
  /\ outcome.value[3].method = "applyFilter"

\* the operations after the old ones hold one with this method and argument
Added(old, new, method, arg) ==
  \E i \in (Len(old) + 1)..Len(new) : new[i] = [method |-> method, args |-> <<arg>>]

\* the step is a call of an eager setter by the caller
EagerSet == outcome'.call \in {"eager", "clearEager"}

\* the step is a call of an order setter by the caller, or a find() whose
\* order parameter has set an order
OrderSet ==
  \/ outcome'.call \in {"orderBy", "clearOrder"}
  \/ /\ outcome'.call = "find"
     /\ \E i \in DOMAIN builders'[outcome'.builder].operations :
          builders'[outcome'.builder].operations[i].method = "orderBy"

\* the step is an execute() that applies the default order
OrderDefaulted ==
  /\ outcome'.call = "execute"
  /\ Truthy(outcome'.modelClass.defaultOrder)
  /\ Added(builders[outcome'.builder].operations,
           builders'[outcome'.builder].operations,
           "orderBy", outcome'.modelClass.defaultOrder)

\* execute() applies the default eager expression, and the default order,
\* of a model class that has them exactly to a pure read without selects
\* whose boolean is still true
DefaultsApplied ==
  outcome'.call = "execute"
  => LET this == builders[outcome'.builder]
         new == builders'[outcome'.builder].operations
         modelClass == outcome'.modelClass
         read == isFindQuery(this) /\ ~hasSelects(this)
     IN /\ Truthy(modelClass.defaultEager)
             => (Added(this.operations, new, "mergeEager", modelClass.defaultEager)
                   <=> (read /\ this._applyDefaultEager))
        /\ Truthy(modelClass.defaultOrder)
             => (Added(this.operations, new, "orderBy", modelClass.defaultOrder)
                   <=> (read /\ this._applyDefaultOrder))

\* C22 as stated: at execute() the default eager expression (the default
\* order) is applied if and only if the query is a pure read without
\* selects and the caller never called an eager setter (an order setter);
\* the two booleans start true and are true exactly as long as the caller
\* has not called the corresponding setter.
C22_Original ==
  /\ \A b \in DOMAIN builders :
       builders[b]._applyDefaultEager /\ builders[b]._applyDefaultOrder
  /\ [][/\ DefaultsApplied
        /\ \A b \in DOMAIN builders :
             /\ builders'[b]._applyDefaultEager
                  = (builders[b]._applyDefaultEager /\ ~(EagerSet /\ outcome'.builder = b))
             /\ builders'[b]._applyDefaultOrder
                  = (builders[b]._applyDefaultOrder /\ ~(OrderSet /\ outcome'.builder = b))]_vars

\* C22, amended: as stated, except that the order boolean is also flipped by
\* an execute() that applies the default order, so that the default order
\* is applied by the first such execute() of the builder only.
C22_DefaultsUnlessSet ==
  /\ \A b \in DOMAIN builders :
       builders[b]._applyDefaultEager /\ builders[b]._applyDefaultOrder
  /\ [][/\ DefaultsApplied
        /\ \A b \in DOMAIN builders :
             /\ builders'[b]._applyDefaultEager
                  = (builders[b]._applyDefaultEager /\ ~(EagerSet /\ outcome'.builder = b))
             /\ builders'[b]._applyDefaultOrder
                  = (builders[b]._applyDefaultOrder
                       /\ ~((OrderSet \/ OrderDefaulted) /\ outcome'.builder = b))]_vars

\* execute() has applied the default order, and not the default eager
\* expression, since eager() was called on the builder
C22_Witness ==
  /\ outcome.call = "execute"
  /\ Truthy(outcome.modelClass.defaultEager)
  /\ Len(outcome.value) = 2
  /\ outcome.value[1].method = "eager"
  /\ outcome.value[2] = [method |-> "orderBy", args |-> <<outcome.modelClass.defaultOrder>>]
  /\ ~builders[outcome.builder]._applyDefaultOrder

\* the query { eager: 'pet' }
EagerQuery == <<Entry("eager", Name("pet"))>>

\* C23: the eager parameter of find() merges its value into the eager
\* expression and marks eager as explicitly set, so that an execute()
\* afterwards does not apply the default eager expression of the model.
C23_EagerMarked ==
  /\ (outcome.call = "find" /\ outcome.query = EagerQuery)
     => /\ outcome.error = NoError
        /\ builders[outcome.builder].operations =
             <<[method |-> "mergeEager", args |-> <<Name("pet")>>]>>
        /\ ~builders[outcome.builder]._applyDefaultEager
  /\ (/\ outcome.call = "execute"
      /\ Truthy(outcome.modelClass.defaultEager)
      /\ Added(<<>>, outcome.value, "mergeEager", Name("pet")))
     => ~Added(<<>>, outcome.value, "mergeEager", outcome.modelClass.defaultEager)

\* 'EntityName.propertyName' for a known property, the identifier otherwise
Qualified(identifier) ==
  IF identifier \in { <<property>> : property \in {"firstName", "lastName"} }
  THEN <<"Person", ".", identifier[1]>>
  ELSE identifier

\* the first argument as the claim has it rewritten
Rewritten(arg) ==
  IF isString(arg) THEN VStr(Qualified(arg.tokens))
  ELSE IF isObject(arg)
  THEN VObj([i \in DOMAIN arg.entries |->
               Entry(Qualified(arg.entries[i].key), arg.entries[i].value)])
  ELSE arg

\* two keys of the object are rewritten to one name
Collides(arg) ==
  /\ isObject(arg)
  /\ \E i \in DOMAIN arg.entries, j \in DOMAIN arg.entries :
       i # j /\ Qualified(arg.entries[i].key) = Qualified(arg.entries[j].key)

\* the call of a where method has added the operation of the method with the
\* first argument rewritten and the other arguments as they were given
CalledRewritten ==
  builders[outcome.builder].operations =
    <<[method |-> outcome.call, args |-> <<Rewritten(outcome.arg)>> \o outcome.args]>>

OneToOne ==
  { relation \in DOMAIN ModelDefinitions["Person"].relations :
      ModelDefinitions["Person"].relations[relation].oneToOne }

\* a where filter or an order reference of the query crosses the relation:
\* the string of the entry names a property of the relation, or the object
\* of the entry holds filters under the name of the relation
Crosses(query, relation) ==
  \E i \in DOMAIN query :
    /\ query[i].key \in {"where", "order"}
    /\ \/ /\ isString(query[i].value)
          /\ \E j \in DOMAIN query[i].value.tokens :
               /\ query[i].value.tokens[j] = relation
               /\ j < Len(query[i].value.tokens)
               /\ query[i].value.tokens[j + 1] = "."
       \/ /\ isObject(query[i].value)
          /\ \E j \in DOMAIN query[i].value.entries :
               query[i].value.entries[j].key = relation

\* the places of the operations of the builder that left-join the relation
LeftJoins(b, relation) ==
  { i \in DOMAIN builders[b].operations :
      builders[b].operations[i] =
        [method |-> "leftJoin", args |-> <<VStr(<<relation>>)>>] }

\* C25: every one-to-one relation crossed by a where filter or by an order
\* reference during find() is recorded as requiring a join and is left-joined
\* exactly once before the query runs; relations not crossed by any filter or
\* order reference are not joined.
C25_JoinedOnce ==
  (outcome.call = "find" /\ outcome.error = NoError)
  => \A relation \in OneToOne :
       IF Crosses(outcome.query, relation)
       THEN /\ Cardinality(LeftJoins(outcome.builder, relation)) = 1
            /\ \E i \in DOMAIN builders[outcome.builder]._relationsToJoin :
                 builders[outcome.builder]._relationsToJoin[i] = relation
       ELSE LeftJoins(outcome.builder, relation) = {}

\* the relations of the given model classes
RelationsOf(classes) ==
  UNION { { RelationArray[modelClass][i] : i \in DOMAIN RelationArray[modelClass] } :
          modelClass \in classes }

RECURSIVE ReachableClasses(_, _)
\* the model classes that relations lead to from the given ones in n steps
ReachableClasses(classes, n) ==
  IF n = 0 THEN classes
  ELSE ReachableClasses(
         classes \cup { RelationInstances[name].relatedModelClass :
                          name \in RelationsOf(classes) },
         n - 1)

\* the relations reachable from the root model class
ReachableRelations == RelationsOf(ReachableClasses({"A"}, Cardinality(ModelClasses)))

\* the option keys that some reachable relation overrides: keys of the global
\* options that the graph options of the relation define with another value
OverriddenKeys ==
  { key \in DOMAIN options :
      \E name \in ReachableRelations :
        LET graphOptions == getGraphOptions(definitions[name])
        IN key \in DOMAIN graphOptions /\ graphOptions[key] # options[key] }

\* C26: collectOverrides terminates for every relation-metadata graph, cyclic
\* ones included (each model class is processed at most once), and
\* afterwards an option key has an (initially empty) override list if and
\* only if it is a key of the global options and some relation reachable from
\* the root model class has effective graph options that define it with a
\* value different from the global one; numOverrides is the number of such
\* keys and never exceeds numOptions.
C26_CollectedOverrides ==
  LET collected == collectOverrides(definitions, options)
  IN /\ collected.processed \subseteq ModelClasses
     /\ collected.overrides = [key \in OverriddenKeys |-> <<>>]
     /\ collected.numOverrides = Cardinality(OverriddenKeys)
     /\ collected.numOverrides <= Cardinality(DOMAIN options)
     /\ settings.processOverrides
          => /\ DOMAIN overrides = OverriddenKeys
             /\ numOverrides = Cardinality(OverriddenKeys)
             /\ numOverrides <= numOptions

\* only the relation that leads back from B to A overrides an option: the
\* walk has gone round the cycle of the metadata and has found unrelate
C26_Witness ==
  /\ settings.processOverrides
  /\ options = [relate |-> FALSE, unrelate |-> TRUE]
  /\ "unrelate" \notin DOMAIN getGraphOptions(definitions["one"])
  /\ "unrelate" \notin DOMAIN getGraphOptions(definitions["many"])
  /\ DOMAIN overrides = {"unrelate"}
  /\ numOverrides = 1
  /\ numOptions = 2

RECURSIVE RelationPaths(_, _)
\* the relation paths present in a graph: the names of the relations that
\* lead from a root instance to a relation value that an instance holds
RelationPaths(value, relations) ==
  IF value.kind = "array"
  THEN UNION { RelationPaths(value.items[i], relations) : i \in DOMAIN value.items }
  ELSE IF value.kind = "model"
  THEN UNION { {Append(relations, name)}
                 \cup RelationPaths(value.rels[name], Append(relations, name)) :
               name \in DOMAIN value.rels }
  ELSE {}

\* the effective setting of the last relation of a path for an option key:
\* its own graph option if defined, else the global option
EffectiveSetting(path, key) ==
  LET graphOptions == getGraphOptions(definitions[path[Len(path)]])
  IN IF key \in DOMAIN graphOptions THEN graphOptions[key] ELSE options[key]

\* C27: after construction with processOverrides, for every option key with
\* overrides and every relation path: the dot-joined path is in the list of
\* the key if and only if a relation at the path is present in the input
\* data and the effective setting of that relation for the key is on. When
\* the static pass has found no override, no path is recorded and
\* getOptions() returns the global options unchanged.
C27_OverridePaths ==
  /\ (settings.processOverrides /\ numOverrides > 0)
       => \A key \in DOMAIN overrides :
            { overrides[key][i] : i \in DOMAIN overrides[key] }
              = { Join(path, ".") :
                    path \in { p \in RelationPaths(data, <<>>) :
                                 EffectiveSetting(p, key) } }
  /\ numOverrides = 0
       => /\ overrides = <<>>
          /\ getOptions = options
          /\ returnedOptions # NotReturned => returnedOptions.value = options

\* the data holds a relation whose own option turns relate off and, below
\* it, a relation that relates as the global option says: only the path of
\* the second is in the list of relate
C27_Witness ==
  /\ settings.processOverrides
  /\ options = [relate |-> TRUE]
  /\ definitions["one"] = RelationDef(GraphOptions([relate |-> FALSE]), FALSE)
  /\ RelationPaths(data, <<>>) = {<<"one">>, <<"one", "backs">>}
  /\ overrides = [relate |-> <<<<"one", ".", "backs">>>>]
  /\ returnedOptions # NotReturned
  /\ returnedOptions.value.relate = <<<<"one", ".", "backs">>>>

\* C28: getData() never modifies the input graph given to the constructor:
\* stubs and processed children are built on clones, so after any number of
\* getData() calls every instance of the input still has its fields and its
\* relation values; and getData() returns an array exactly when the input
\* was an array, else the first element.
C28_InputKept ==
  [][GetData =>
       /\ data' = data
       /\ isArrayData => /\ isArray(returnedData')
                         /\ Len(returnedData'.items) = Len(data.items)
       /\ ~isArrayData => /\ returnedData'.kind = "model"
                          /\ returnedData'.cls = data.items[1].cls
                          /\ returnedData'.id = data.items[1].id
    ]_vars

\* getData() has been called again on one instance that holds relations; it
\* has returned a clone of which it has processed the relations, with an
\* instance below it turned into a stub
C28_Witness ==
  /\ repeated
  /\ ~isArrayData
  /\ returnedData # NotReturned
  /\ removedRelations.truthy
  /\ \E pos \in OutputPositions :
       /\ pos.relations # <<>>
       /\ IsStub(pos)
       /\ InputFields(pos) # {}

\* one sequence starts with the other
IsPrefix(short, long) ==
  /\ Len(short) <= Len(long)
  /\ SubSeq(long, 1, Len(short)) = short

\* the operations of the builder that are joins of find()
JoinsOf(operations) == SelectSeq(operations, LAMBDA op : op.method = "leftJoin")

\* the keys of the first k entries of the query that have a handler, in the
\* order of the entries
HandledKeys(query, k) ==
  SelectSeq([i \in 1..k |-> query[i].key], LAMBDA key : key \in queryHandlerKeys)

\* the loop of find() for the first k entries of the query alone, on the
\* builder as it is before the call
UpTo(b, query, allowed, k) ==
  findEntries([World EXCEPT !.builders[b]._relationsToJoin = <<>>],
              b, SubSeq(query, 1, k), 1, allowed, <<>>)

\* find() has failed at the k-th entry of the query: the handlers of the
\* entries before it have changed the builder and the changes are kept, no
\* handler of a later entry has been called, and nothing has been joined
FailedAt(b, query, allowed, k) ==
  /\ UpTo(b, query, allowed, k - 1).error = NoError
  /\ UpTo(b, query, allowed, k).error = outcome'.error
  /\ UpTo(b, query, allowed, k - 1).value = HandledKeys(query, k - 1)
  /\ outcome'.value \in { HandledKeys(query, k - 1), HandledKeys(query, k) }
  /\ IsPrefix(UpTo(b, query, allowed, k - 1).w.builders[b].operations,
              builders'[b].operations)
  /\ IsPrefix(UpTo(b, query, allowed, k - 1).w.scopeObjs[builders[b]._scopes],
              scopeObjs'[builders'[b]._scopes])
  /\ JoinsOf(builders'[b].operations) = JoinsOf(builders[b].operations)

\* C29: find() dispatches the query keys in their order and stops at the
\* first key that fails: when it throws, the handlers of all earlier keys
\* have changed the builder and are not rolled back, no later key is
\* dispatched, and none of the relations collected for joining has been
\* joined; the set of relations to join is reset at the start of every
\* find() call.
C29_StopsAtFirstFailure ==
  [][outcome'.call = "find" =>
       LET b == outcome'.builder
           query == outcome'.query
           allowed == outcome'.allowed
       IN /\ outcome'.error # NoError
               => \E k \in DOMAIN query : FailedAt(b, query, allowed, k)
          /\ outcome'.error = NoError => outcome'.value = HandledKeys(query, Len(query))
          /\ (\A i \in DOMAIN query : query[i].key # "where")
               => builders'[b]._relationsToJoin = <<>>
    ]_vars

\* find({ limit: 1, where: ... }) has thrown in the where filter on lastName:
\* the limit is on the builder and pet has been collected, but is not joined
C29_Witness ==
  /\ outcome.call = "find"
  /\ outcome.error # NoError
  /\ Len(outcome.query) = 2
  /\ outcome.query[1].key = "limit"
  /\ outcome.query[2].key = "where"
  /\ outcome.value = <<"limit", "where">>
  /\ builders[outcome.builder]._relationsToJoin = <<"pet">>
  /\ \E i \in DOMAIN builders[outcome.builder].operations :
       builders[outcome.builder].operations[i].method = "limit"
  /\ JoinsOf(builders[outcome.builder].operations) = <<>>

\* the operations of all builders whose method is one of the given ones
OperationsOf(methods) ==
  { <<b, i>> \in BuilderIds \X (1..4) :
      /\ b \in DOMAIN builders
      /\ i \in DOMAIN builders[b].operations
      /\ builders[b].operations[i].method \in methods }

====
